---- MODULE Spec2Model ----
(***************************************************************************)
(* Verification model of ovos-padatious-pipeline-plugin.                   *)
(*                                                                         *)
(* The module holds several state machines over disjoint groups of         *)
(* variables, one per component:                                           *)
(*   SpecDomain    DomainIntentEngine            (domain_engine.py)        *)
(*   SpecPipeline  PadatiousPipeline handlers     (opm.py)                 *)
(*   SpecThreads   the handlers run by threads    (opm.py)                 *)
(*   SpecPadaos    regex IntentContainer threads  (padaos.py)              *)
(*   SpecMatch     tokenize / Intent.match        (util.py, intent.py ...) *)
(*   SpecSelect    _calc_padatious_intent          (opm.py)                *)
(*   SpecIntentMatch  Intent.match with entities   (intent.py ...)         *)
(*   SpecRegex     regex compile and calc_intent   (padaos.py)             *)
(*   SpecIds       IdManager                       (id_manager.py)         *)
(*   SpecTokenize  tokenize on its own output      (util.py)               *)
(*   SpecTrain     TrainData and Intent.train      (train_data.py ...)     *)
(*   SpecPosIntent    PosIntent.match              (pos_intent.py)         *)
(*   SpecSimpleTrain  SimpleIntent.train examples  (simple_intent.py)      *)
(*   SpecApostrophes  MatchData.handle_apostrophes (match_data.py)         *)
(*   SpecResolve      resolve_conflicts            (util.py)               *)
(*   SpecEntities     EntityManager                (entity_manager.py)     *)
(* Confidences are fixed-point numbers in hundredths (100 stands for 1.0). *)
(***************************************************************************)
EXTENDS Integers, Sequences, FiniteSets, TLC

VARIABLES
    \* ---- DomainIntentEngine (domain_engine.py) ----
    domain_engine,      \* top-level IntentContainer, its intents are domains
    domains,            \* defaultdict: domain name -> IntentContainer
    training_data,      \* defaultdict(list): ordered (name, samples) items
    _must_train,        \* the engine's dirty flag
    lastCall            \* the last operation called and what it returned

domVars == <<domain_engine, domains, training_data, _must_train, lastCall>>

VARIABLES
    \* ---- PadatiousPipeline (opm.py) ----
    containers,             \* lang -> IntentContainer
    must_train,             \* lang -> the container's must_train flag
    registered_intents,     \* list of intent names
    registered_entities,    \* list of entity messages
    _skill2intent,          \* defaultdict(list): skill id -> intent names
    finished_initial_train,
    instant_train,          \* config "instant_train"
    cache,                  \* lru_cache of _calc_padatious_intent
    pLast                   \* the last handler run and what it produced

pipeVars == <<containers, must_train, registered_intents, registered_entities,
              _skill2intent, finished_initial_train, instant_train, cache, pLast>>

VARIABLES
    \* ---- PadatiousPipeline handlers running in threads (opm.py) ----
    thread,             \* thread -> where it is in its handler
    lock,               \* self.lock: the thread holding it, or None
    t_must_train,       \* lang -> the container's must_train flag
    t_registered,       \* self.registered_intents
    t_skill2intent,     \* self._skill2intent[skill] of the one skill
    t_finished,         \* self.finished_initial_train
    t_call              \* thread -> what its last call of train() saw and did

thrVars == <<thread, lock, t_must_train, t_registered, t_skill2intent, t_finished,
             t_call>>

VARIABLES
    \* ---- regex IntentContainer used by threads (padaos.py) ----
    intent_lines,       \* intent name -> template lines
    entity_lines,       \* entity name -> template lines
    intents,            \* intent name -> compiled regexes
    entities,           \* entity name -> compiled pattern
    must_compile,
    compile_lock,       \* the thread holding the Lock, or None
    caller              \* thread -> where it is in its call

padVars == <<intent_lines, entity_lines, intents, entities, must_compile,
             compile_lock, caller>>

VARIABLES
    \* ---- IntentManager and Intent matching (intent_manager.py, intent.py) ----
    objects,            \* IntentManager.objects: the trained intents
    asked               \* the last calc_intents call and what it returned

matchVars == <<objects, asked>>

VARIABLES
    \* ---- one call of a function (opm.py, intent.py, padaos.py, util.py) ----
    input,              \* the arguments of the call
    output              \* what the call returned, once it has returned

fnVars == <<input, output>>

VARIABLES
    \* ---- IdManager (id_manager.py) ----
    ids,                \* self.ids: token -> id
    file,               \* the file <prefix>.ids
    vec,                \* the vector the caller got from vector()
    idLast              \* the last method called

idVars == <<ids, file, vec, idLast>>

VARIABLES
    \* ---- Intent.train (intent.py) ----
    sent_lists,         \* TrainData.sent_lists: intent name -> sentences
    self_pos_intents,      \* Intent.pos_intents: the tokens of its PosIntents
    train_calls,         \* the train() calls made on the parts, in order
    train_pc            \* where Intent.train is

trainVars == <<sent_lists, self_pos_intents, train_calls, train_pc>>

VARIABLES
    \* ---- EntityManager (entity_manager.py) ----
    em_objects,         \* self.objects: the names of the Entity objects
    em_entity_dict,     \* self.entity_dict: name -> Entity
    emLast              \* the last method called and what it returned

entVars == <<em_objects, em_entity_dict, emLast>>

vars == <<domVars, pipeVars, thrVars, padVars, matchVars, fnVars, idVars, trainVars,
          entVars>>

(***************************************************************************)
(* Values shared by the components                                         *)
(***************************************************************************)
\* Python's None
None == "<None>"

\* Python's None where a MatchData is expected (a record, so that it can be
\* compared with one)
NoIntent == [none |-> TRUE]

\* Python's empty dict, as the matches of a MatchData
EmptyDict == <<>>

\* MatchData.__init__; "matches or {}" makes a None given for matches the
\* empty dict, which the callers here pass as EmptyDict
MatchData(name, sent, matches, conf) ==
    [name |-> name, sent |-> sent, matches |-> matches, conf |-> conf]

(***************************************************************************)
(* Ordered dictionaries: a sequence of records with a name field, in       *)
(* insertion order (Python dict / list of Trainable objects)               *)
(***************************************************************************)
DictHas(d, k) == \E i \in 1..Len(d) : d[i].name = k

DictIdx(d, k) == CHOOSE i \in 1..Len(d) : d[i].name = k

DictPop(d, k) == SelectSeq(d, LAMBDA e : e.name # k)

(***************************************************************************)
(* Bounds of the pipeline model                                            *)
(***************************************************************************)
\* the languages configured (keys of self.containers)
Langs == {"en-US"}
\* a language tag no container is close to
FarLang == "xx"
Skills == {"s1", "s2"}
\* intent names, "<skill>:<intent>"
PipeIntents == {"s1:a", "s2:b"}
PipeEntities == {"s1:e"}
\* name.split(":")[0]
SkillPrefix(name) == IF name \in {"s1:a", "s1:c", "s1:e"} THEN "s1" ELSE "s2"
\* the "samples" of a registration message (no file_name is given)
PipeSamples == {<<>>, <<"x", "x">>}
\* outputs a trained network may give for an utterance, in hundredths
PipeConfs == {40, 90}
\* most register_intent messages handled
MaxRegistered == 2
\* most register_entity messages handled
MaxEntityMsgs == 1
\* self.max_words
max_words == 50
\* @lru_cache(maxsize=3)
maxsize == 3
\* an utterance of n one-letter words, as a string of characters
Words(n) == [i \in 1..(2 * n - 1) |-> IF i % 2 = 1 THEN "w" ELSE " "]
Utterances == {Words(1), Words(max_words - 1), Words(max_words), Words(max_words + 1)}
\* the utterance lists given to calc_intent
UtteranceLists ==
    {<<Words(max_words - 1)>>, <<Words(max_words)>>, <<Words(max_words + 1)>>,
     <<Words(1), Words(max_words + 1)>>}
\* self.lang
PipeLang == "en-US"
\* SessionManager.get(None): the default session
DefaultSession ==
    [session_id |-> "default", blacklisted_intents |-> {}, blacklisted_skills |-> {}]

(***************************************************************************)
(* Bounds of the domain model                                              *)
(***************************************************************************)
DomainNames == {"d1", "d2"}
IntentNames == {"i1", "i2"}
EntityNames == {"e1"}
SampleLists == {<<"a">>}
Queries == {"q"}
\* outputs a trained network may give for the query, in hundredths
Confs == {40, 90}
\* longest training_data list of one domain
MaxTrainLen == 2
\* most intents held by the domains together
MaxIntents == 2
\* largest top_k_domains argument
MaxTopK == 2

(***************************************************************************)
(* IntentContainer (neural).  An intent is trained when its network has    *)
(* been fitted to its current samples.  What a fitted network answers for  *)
(* a query is not determined by the program text: every read takes the     *)
(* networks' outputs for its query as an input (net: intent name -> conf). *)
(* The container's own dirty flag is kept beside the container by the      *)
(* component that reads it (the pipeline).                                 *)
(***************************************************************************)
NewContainer == [intents |-> <<>>, entities |-> {}]

ContainerAddIntent(c, name, samples) ==
    LET fresh == [name |-> name, samples |-> samples, trained |-> FALSE]
        its == c.intents
        new == IF ~DictHas(its, name) THEN Append(its, fresh)
               ELSE IF its[DictIdx(its, name)].samples = samples THEN its
               ELSE [its EXCEPT ![DictIdx(its, name)] = fresh]
    IN [c EXCEPT !.intents = new]

ContainerRemoveIntent(c, name) ==
    [c EXCEPT !.intents = DictPop(c.intents, name)]

ContainerAddEntity(c, name) ==
    [c EXCEPT !.entities = @ \cup {name}]

ContainerRemoveEntity(c, name) ==
    [c EXCEPT !.entities = @ \ {name}]

\* train(): fit every intent whose samples changed
ContainerTrain(c) ==
    [c EXCEPT !.intents = [i \in 1..Len(c.intents) |->
                              [c.intents[i] EXCEPT !.trained = TRUE]]]

\* IntentManager.calc_intents: one MatchData per intent object, in the order
\* of self.objects
ContainerCalcIntents(c, q, net) ==
    [i \in 1..Len(c.intents) |->
        MatchData(c.intents[i].name, q, EmptyDict, net[c.intents[i].name])]

\* first element of a non-empty list with the largest conf (Python's max)
MaxByConf(ms) ==
    ms[CHOOSE i \in 1..Len(ms) :
          /\ \A j \in 1..Len(ms) : ms[j].conf <= ms[i].conf
          /\ \A j \in 1..(i - 1) : ms[j].conf < ms[i].conf]

\* IntentContainer.calc_intent: the max-conf match, a null match when there
\* is none
ContainerCalcIntent(c, q, net) ==
    IF Len(c.intents) = 0 THEN MatchData(None, q, EmptyDict, 0)
    ELSE MaxByConf(ContainerCalcIntents(c, q, net))

(***************************************************************************)
(* DomainIntentEngine                                                      *)
(***************************************************************************)
\* self.domains[name] of a defaultdict: the entry is created when missing
DomainsGet(doms, d) ==
    IF d \in DOMAIN doms THEN doms
    ELSE [x \in (DOMAIN doms) \cup {d} |-> IF x = d THEN NewContainer ELSE doms[x]]

DomainsPop(doms, d) == [x \in (DOMAIN doms) \ {d} |-> doms[x]]

\* self.training_data[name] of a defaultdict(list)
TrainingDataGet(td, d) == IF DictHas(td, d) THEN td[DictIdx(td, d)].samples ELSE <<>>

\* self.training_data[domain_name] += intent_samples
TrainingDataExtend(td, d, samples) ==
    IF DictHas(td, d)
    THEN [td EXCEPT ![DictIdx(td, d)].samples = @ \o samples]
    ELSE Append(td, [name |-> d, samples |-> samples])

\* train(), first loop: domain_engine.add_intent(domain, samples) for every
\* item of training_data
RECURSIVE EngineAddAll(_, _)
EngineAddAll(eng, td) ==
    IF td = <<>> THEN eng
    ELSE EngineAddAll(ContainerAddIntent(eng, Head(td).name, Head(td).samples), Tail(td))

\* the containers as train() leaves them
Trained(eng, doms, td) ==
    [eng |-> ContainerTrain(EngineAddAll(eng, td)),
     doms |-> [d \in DOMAIN doms |-> ContainerTrain(doms[d])]]

\* "if self._must_train: self.train()" at the head of every read
AfterTrainCheck ==
    IF _must_train THEN Trained(domain_engine, domains, training_data)
    ELSE [eng |-> domain_engine, doms |-> domains]

DictKeys(d) == {d[i].name : i \in 1..Len(d)}

\* the (domain, intent) pairs of the domains ds
IntentPairs(doms, ds) ==
    {p \in (ds \cap DOMAIN doms) \X IntentNames : p[2] \in DictKeys(doms[p[1]].intents)}

\* the outputs the fitted networks can give for one query: ne[d] that of the
\* domain engine's intent d, ni[<<d, i>>] that of intent i of domain d; only
\* the networks the call runs are listed
NetOutputs(eng, doms, useEngine, ds) ==
    [ne : [IF useEngine THEN DictKeys(eng.intents) ELSE {} -> Confs],
     ni : [IntentPairs(doms, ds) -> Confs]]

\* the outputs of the networks of domain d, by intent name
NetOf(net, doms, d) ==
    [i \in {x \in IntentNames : <<d, x>> \in DOMAIN net.ni} |-> net.ni[<<d, i>>]]

Call(op, dom, k, trained, res, ranked, used) ==
    [op |-> op, dom |-> dom, k |-> k, trained |-> trained,
     res |-> res, ranked |-> ranked, used |-> used]

\* intents held by all domains together
RECURSIVE IntentCount(_, _)
IntentCount(doms, ds) ==
    IF ds = {} THEN 0
    ELSE LET d == CHOOSE x \in ds : TRUE
         IN Len(doms[d].intents) + IntentCount(doms, ds \ {d})

\* the domain engine as constructed; its variables keep this value in the
\* specifications of the other components
DomIdle ==
    /\ domain_engine = NewContainer
    /\ domains = [x \in {} |-> NewContainer]
    /\ training_data = <<>>
    /\ _must_train = TRUE
    /\ lastCall = Call("init", None, 0, FALSE, <<>>, <<>>, <<>>)

\* what a handler of the pipeline was given and produced
PCall(op, lang, passed, res, emitted) ==
    [op |-> op, utterances |-> <<>>, lang |-> lang, passed |-> passed, res |-> res,
     emitted |-> emitted]

\* PadatiousPipeline.__init__ (config instant_train as given)
PipeIdle(it) ==
    /\ containers = [l \in Langs |-> NewContainer]
    /\ must_train = [l \in Langs |-> FALSE]
    /\ registered_intents = <<>>
    /\ registered_entities = <<>>
    /\ _skill2intent = [x \in {} |-> <<>>]
    /\ finished_initial_train = FALSE
    /\ instant_train = it
    /\ cache = <<>>
    /\ pLast = PCall("init", None, <<>>, NoIntent, 0)

\* handler threads, all idle
Threads == {"t1", "t2"}
\* the languages of self.containers, in dict order
ThreadLangs == <<"en-US", "pt-PT">>
\* the intent the handler threads register and detach
ThreadIntent == "s1:a"
\* most register_intent messages handled by the threads
MaxThreadRegs == 2

At(pc, lang, names, langs) == [pc |-> pc, lang |-> lang, names |-> names, langs |-> langs]

Idle == At("idle", None, <<>>, <<>>)

\* no call of train() yet: the containers that were dirty when the call
\* looked, those whose train() returned since, the messages
\* 'mycroft.skills.trained' the call emitted
NoTrainCall == [flagged |-> {}, trained |-> {}, emitted |-> 0]

ThrIdle ==
    /\ thread = [t \in Threads |-> Idle]
    /\ lock = None
    /\ t_must_train = [l \in {ThreadLangs[i] : i \in 1..Len(ThreadLangs)} |-> FALSE]
    /\ t_registered = <<>>
    /\ t_skill2intent = <<>>
    /\ t_finished = FALSE
    /\ t_call = [t \in Threads |-> NoTrainCall]

\* threads calling the regex container
Callers == {"c1", "c2"}

InCall(pc, op, name, lines) == [pc |-> pc, op |-> op, name |-> name, lines |-> lines]

NoCall == InCall("idle", None, None, <<>>)

\* padaos.IntentContainer.__init__
PadIdle ==
    /\ intent_lines = [x \in {} |-> <<>>]
    /\ entity_lines = [x \in {} |-> <<>>]
    /\ intents = [x \in {} |-> <<>>]
    /\ entities = [x \in {} |-> <<>>]
    /\ must_compile = TRUE
    /\ compile_lock = None
    /\ caller = [t \in Callers |-> NoCall]

\* what calc_intents was asked and answered
Asked(op, query, sent, res) == [op |-> op, query |-> query, sent |-> sent, res |-> res]

\* an IntentManager holding the trained intents objs, not yet asked
MatchIdle(objs) ==
    /\ objects = objs
    /\ asked = Asked("init", <<>>, <<>>, <<>>)

\* no function called
FnIdle ==
    /\ input = <<>>
    /\ output = <<>>

\* no IdManager made
IdIdle ==
    /\ ids = <<>>
    /\ file = None
    /\ vec = <<>>
    /\ idLast = None

\* no Intent made
TrainIdle ==
    /\ sent_lists = <<>>
    /\ self_pos_intents = <<>>
    /\ train_calls = <<>>
    /\ train_pc = None

\* the components the other specifications leave at rest
\* no entity added
EntIdle ==
    /\ em_objects = <<>>
    /\ em_entity_dict = <<>>
    /\ emLast = None

RestIdle == FnIdle /\ IdIdle /\ TrainIdle /\ EntIdle

\* the components at rest
AllIdle == DomIdle /\ PipeIdle(TRUE) /\ ThrIdle /\ PadIdle /\ MatchIdle(<<>>) /\ RestIdle

DomInit == AllIdle

remove_domain(d) ==
    /\ training_data' = IF DictHas(training_data, d) THEN DictPop(training_data, d)
                        ELSE training_data
    /\ domains' = IF d \in DOMAIN domains THEN DomainsPop(domains, d) ELSE domains
    /\ domain_engine' = IF DictHas(domain_engine.intents, d)
                        THEN ContainerRemoveIntent(domain_engine, d)
                        ELSE domain_engine
    /\ lastCall' = Call("remove_domain", None, 0, FALSE, <<>>, <<>>, <<>>)
    /\ UNCHANGED _must_train

register_domain_intent(d, i, samples) ==
    /\ Len(TrainingDataGet(training_data, d)) + Len(samples) <= MaxTrainLen
    /\ \/ d \in DOMAIN domains /\ DictHas(domains[d].intents, i)
       \/ IntentCount(domains, DOMAIN domains) < MaxIntents
    /\ domains' = [DomainsGet(domains, d) EXCEPT
                      ![d] = ContainerAddIntent(@, i, samples)]
    /\ training_data' = TrainingDataExtend(training_data, d, samples)
    /\ _must_train' = TRUE
    /\ lastCall' = Call("register_domain_intent", None, 0, FALSE, <<>>, <<>>, <<>>)
    /\ UNCHANGED domain_engine

remove_domain_intent(d, i) ==
    /\ domains' = [DomainsGet(domains, d) EXCEPT ![d] = ContainerRemoveIntent(@, i)]
    /\ lastCall' = Call("remove_domain_intent", None, 0, FALSE, <<>>, <<>>, <<>>)
    /\ UNCHANGED <<domain_engine, training_data, _must_train>>

register_domain_entity(d, e) ==
    /\ domains' = [DomainsGet(domains, d) EXCEPT ![d] = ContainerAddEntity(@, e)]
    /\ lastCall' = Call("register_domain_entity", None, 0, FALSE, <<>>, <<>>, <<>>)
    /\ UNCHANGED <<domain_engine, training_data, _must_train>>

remove_domain_entity(d, e) ==
    /\ domains' = [DomainsGet(domains, d) EXCEPT ![d] = ContainerRemoveEntity(@, e)]
    /\ lastCall' = Call("remove_domain_entity", None, 0, FALSE, <<>>, <<>>, <<>>)
    /\ UNCHANGED <<domain_engine, training_data, _must_train>>

train ==
    /\ domain_engine' = Trained(domain_engine, domains, training_data).eng
    /\ domains' = Trained(domain_engine, domains, training_data).doms
    /\ _must_train' = FALSE
    /\ lastCall' = Call("train", None, 0, TRUE, <<>>, <<>>, <<>>)
    /\ UNCHANGED training_data

calc_domains(q, net) ==
    /\ domain_engine' = AfterTrainCheck.eng
    /\ domains' = AfterTrainCheck.doms
    /\ _must_train' = FALSE
    /\ lastCall' = Call("calc_domains", None, 0, _must_train,
                        ContainerCalcIntents(AfterTrainCheck.eng, q, net.ne), <<>>, <<>>)
    /\ UNCHANGED training_data

\* a slip in the fallback: the null MatchData carries the looked-up name
DomainCalcIntentNamesDomain(eng, doms, q, domain, net) ==
    LET dom == IF domain # None THEN domain ELSE ContainerCalcIntent(eng, q, net.ne).name
    IN IF dom \in DOMAIN doms THEN ContainerCalcIntent(doms[dom], q, NetOf(net, doms, dom))
       ELSE MatchData(dom, q, EmptyDict, 0)

\* calc_intent, after the training check: the domain named, else the domain
\* engine's best match; a null MatchData when that is not a key of domains
DomainCalcIntent(eng, doms, q, domain, net) ==
    LET dom == IF domain # None THEN domain ELSE ContainerCalcIntent(eng, q, net.ne).name
    IN IF dom \in DOMAIN doms THEN ContainerCalcIntent(doms[dom], q, NetOf(net, doms, dom))
       ELSE MatchData(None, q, EmptyDict, 0)

calc_intent(q, domain, net) ==
    /\ domain_engine' = AfterTrainCheck.eng
    /\ domains' = AfterTrainCheck.doms
    /\ _must_train' = FALSE
    /\ lastCall' = Call("calc_intent", domain, 0, _must_train,
                        <<DomainCalcIntent(AfterTrainCheck.eng, AfterTrainCheck.doms,
                                           q, domain, net)>>,
                        IF domain # None THEN <<>>
                        ELSE ContainerCalcIntents(AfterTrainCheck.eng, q, net.ne), <<>>)
    /\ UNCHANGED training_data

\* sorted(matches, reverse=True, key=conf): stable, equal confs keep their order
RECURSIVE SortedByConf(_)
SortedByConf(ms) ==
    IF ms = <<>> THEN <<>>
    ELSE LET i == CHOOSE j \in 1..Len(ms) :
                      /\ \A k \in 1..Len(ms) : ms[k].conf <= ms[j].conf
                      /\ \A k \in 1..(j - 1) : ms[k].conf < ms[j].conf
         IN <<ms[i]>> \o SortedByConf(SubSeq(ms, 1, i - 1) \o SubSeq(ms, i + 1, Len(ms)))

\* list[:k]
Take(l, k) == SubSeq(l, 1, IF k < Len(l) THEN k ELSE Len(l))

\* the names of calc_domains(query)[:top_k_domains] that are keys of domains
TopDomains(eng, doms, q, k, net) ==
    LET first == Take(ContainerCalcIntents(eng, q, net.ne), k)
    IN SelectSeq([i \in 1..Len(first) |-> first[i].name], LAMBDA n : n \in DOMAIN doms)

RECURSIVE ConcatIntents(_, _, _, _)
ConcatIntents(doms, ds, q, net) ==
    IF ds = <<>> THEN <<>>
    ELSE ContainerCalcIntents(doms[Head(ds)], q, NetOf(net, doms, Head(ds)))
            \o ConcatIntents(doms, Tail(ds), q, net)

\* calc_intents, after the training check
DomainCalcIntents(eng, doms, q, domain, k, net) ==
    IF domain # None
    THEN ContainerCalcIntents(DomainsGet(doms, domain)[domain], q, NetOf(net, doms, domain))
    ELSE SortedByConf(ConcatIntents(doms, TopDomains(eng, doms, q, k, net), q, net))

calc_intents(q, domain, k, net) ==
    LET s == AfterTrainCheck
    IN /\ domain_engine' = s.eng
       /\ domains' = IF domain # None THEN DomainsGet(s.doms, domain) ELSE s.doms
       /\ _must_train' = FALSE
       /\ lastCall' = Call("calc_intents", domain, k, _must_train,
                           DomainCalcIntents(s.eng, s.doms, q, domain, k, net),
                           IF domain # None THEN <<>>
                           ELSE ContainerCalcIntents(s.eng, q, net.ne),
                           IF domain # None THEN <<domain>>
                           ELSE TopDomains(s.eng, s.doms, q, k, net))
       /\ UNCHANGED training_data

\* the other components are not running
RestOnly == UNCHANGED <<fnVars, idVars, trainVars, entVars>>

DomOnly == UNCHANGED <<pipeVars, thrVars, padVars, matchVars>> /\ RestOnly

DomNext ==
    \/ \E d \in DomainNames : remove_domain(d) /\ DomOnly
    \/ \E d \in DomainNames, i \in IntentNames, s \in SampleLists :
          register_domain_intent(d, i, s) /\ DomOnly
    \/ \E d \in DomainNames, i \in IntentNames :
          remove_domain_intent(d, i) /\ DomOnly
    \/ \E d \in DomainNames, e \in EntityNames :
          register_domain_entity(d, e) /\ DomOnly
    \/ \E d \in DomainNames, e \in EntityNames :
          remove_domain_entity(d, e) /\ DomOnly
    \/ train /\ DomOnly
    \/ \E q \in Queries :
          \E net \in NetOutputs(AfterTrainCheck.eng, AfterTrainCheck.doms, TRUE, {}) :
             calc_domains(q, net) /\ DomOnly
    \/ \E q \in Queries, d \in DomainNames \cup {None} :
          \E net \in NetOutputs(AfterTrainCheck.eng, AfterTrainCheck.doms, d = None,
                                IF d = None THEN DomainNames ELSE {d}) :
             calc_intent(q, d, net) /\ DomOnly
    \/ \E q \in Queries, d \in DomainNames \cup {None}, k \in 1..MaxTopK :
          \E net \in NetOutputs(AfterTrainCheck.eng, AfterTrainCheck.doms, d = None,
                                IF d = None THEN DomainNames ELSE {d}) :
             calc_intents(q, d, k, net) /\ DomOnly

SpecDomain == DomInit /\ [][DomNext]_vars

(***************************************************************************)
(* Claims about DomainIntentEngine (SpecDomain)                            *)
(***************************************************************************)
MutationOps == {"register_domain_intent", "remove_domain_intent",
                "register_domain_entity", "remove_domain_entity", "remove_domain"}

\* C1: after register_domain_intent, remove_domain_intent,
\* register_domain_entity, remove_domain_entity or remove_domain the dirty
\* flag _must_train is true, and only a run of train() sets it to false.
C1_DirtyUntilTrain ==
    [][/\ lastCall'.op \in MutationOps => _must_train'
       /\ (_must_train /\ ~_must_train') => lastCall'.trained]_vars

\* the samples of the intents registered in a container, concatenated
RECURSIVE ConcatSamples(_)
ConcatSamples(its) ==
    IF its = <<>> THEN <<>> ELSE Head(its).samples \o ConcatSamples(Tail(its))

MemberSamples(d) ==
    IF d \in DOMAIN domains THEN ConcatSamples(domains[d].intents) ELSE <<>>

\* C2: training_data[d] is the concatenation of the sample lists of exactly
\* the intents currently registered in d, and that is what train() hands to
\* domain_engine as the samples of d.
C2_TrainingDataIsMemberSamples ==
    \A d \in DomainNames :
        /\ TrainingDataGet(training_data, d) = MemberSamples(d)
        /\ (lastCall.op = "train" /\ DictHas(domain_engine.intents, d))
              => domain_engine.intents[DictIdx(domain_engine.intents, d)].samples
                    = MemberSamples(d)

SeqRange(l) == {l[i] : i \in 1..Len(l)}

Min(a, b) == IF a < b THEN a ELSE b

\* C3: calc_intents without a domain takes the matches of exactly the
\* top_k_domains domains the domain engine gives the highest confidence: no
\* domain it uses has a lower confidence than one it leaves out.
C3_TopKDomainsByConfidence ==
    (lastCall.op = "calc_intents" /\ lastCall.dom = None) =>
        LET ranked == lastCall.ranked
            used == SeqRange(lastCall.used)
        IN /\ Cardinality(used) = Min(lastCall.k, Len(ranked))
           /\ \A i, j \in 1..Len(ranked) :
                 (ranked[i].name \in used /\ ranked[j].name \notin used)
                    => ranked[i].conf >= ranked[j].conf

\* the domain calc_intent looks up: the one given, else the name of the
\* domain engine's best match
LookedUpDomain ==
    IF lastCall.dom # None THEN lastCall.dom
    ELSE IF lastCall.ranked = <<>> THEN None
    ELSE MaxByConf(lastCall.ranked).name

\* C7: calc_intent for a domain that has no container (given, or named by
\* the domain engine's best match) returns name = None, conf = 0 and empty
\* matches.
C7_UnknownDomainNullMatch ==
    (lastCall.op = "calc_intent" /\ LookedUpDomain \notin DOMAIN domains) =>
        /\ Len(lastCall.res) = 1
        /\ lastCall.res[1].name = None
        /\ lastCall.res[1].conf = 0
        /\ lastCall.res[1].matches = EmptyDict

\* C7 witness: a domain with no container is asked for while another
\* domain holds a trained intent
C7_Witness ==
    /\ lastCall.op = "calc_intent"
    /\ lastCall.dom \in DomainNames \ DOMAIN domains
    /\ \E d \in DOMAIN domains : domains[d].intents # <<>>
    /\ lastCall.res[1].name = None

\* C9: the list calc_intents returns is in non-increasing order of conf,
\* with a domain given and without.
C9_ResultSortedByConf ==
    lastCall.op = "calc_intents" =>
        \A i \in 1..(Len(lastCall.res) - 1) :
            lastCall.res[i].conf >= lastCall.res[i + 1].conf

\* C27: remove_domain_intent, remove_domain_entity and calc_intents with a
\* domain given create no container: the set of domains after the call
\* holds no domain it did not hold before.
C27_NoDomainCreatedAsSideEffect ==
    [][(\/ lastCall'.op \in {"remove_domain_intent", "remove_domain_entity"}
        \/ (lastCall'.op = "calc_intents" /\ lastCall'.dom # None))
       => DOMAIN domains' \subseteq DOMAIN domains]_vars

(***************************************************************************)
(* PadatiousPipeline (opm.py), one handler at a time                       *)
(***************************************************************************)
IsSpace(ch) == ch \in {" ", "\t", "\n"}

\* str.split(): the maximal runs of non-whitespace characters of u[lo..hi],
\* found by cutting the range at one of its whitespace characters
RECURSIVE Split(_, _, _)
Split(u, lo, hi) ==
    LET spaces == {i \in lo..hi : IsSpace(u[i])}
        mid == (lo + hi) \div 2
        dist(i) == IF i < mid THEN mid - i ELSE i - mid
        cut == CHOOSE i \in spaces : \A j \in spaces : dist(i) <= dist(j)
    IN IF lo > hi THEN <<>>
       ELSE IF spaces = {} THEN <<SubSeq(u, lo, hi)>>
       ELSE Split(u, lo, cut - 1) \o Split(u, cut + 1, hi)

\* the orders list(set(seq)) may give
DeduplicateList(seq) ==
    LET S == {seq[i] : i \in 1..Len(seq)}
    IN {t \in [1..Cardinality(S) -> S] : {t[i] : i \in 1..Len(t)} = S}

\* self._skill2intent[skill_id] of a defaultdict(list)
SkillGet(s2i, k) ==
    IF k \in DOMAIN s2i THEN s2i
    ELSE [x \in (DOMAIN s2i) \cup {k} |-> IF x = k THEN <<>> ELSE s2i[x]]

\* list.remove(x): the first occurrence goes
RECURSIVE ListRemove(_, _)
ListRemove(l, x) ==
    IF l = <<>> THEN <<>>
    ELSE IF Head(l) = x THEN Tail(l)
    ELSE <<Head(l)>> \o ListRemove(Tail(l), x)

InList(x, l) == \E i \in 1..Len(l) : l[i] = x

RECURSIVE SumLen(_, _)
SumLen(s2i, ks) ==
    IF ks = {} THEN 0
    ELSE LET k == CHOOSE x \in ks : TRUE
         IN Len(s2i[k]) + SumLen(s2i, ks \ {k})

\* the part of the pipeline the handlers below pass along
PipeState(conts, mt, fit, emitted) ==
    [containers |-> conts, must_train |-> mt, finished_initial_train |-> fit,
     emitted |-> emitted]

\* PadatiousPipeline.train; emitted counts 'mycroft.skills.trained'
PipeTrain(st) ==
    IF ~(\E l \in Langs : st.must_train[l])
    THEN [st EXCEPT !.emitted = @ + 1]
    ELSE PipeState([l \in Langs |-> IF st.must_train[l]
                                    THEN ContainerTrain(st.containers[l])
                                    ELSE st.containers[l]],
                   [l \in Langs |-> FALSE],
                   TRUE,
                   st.emitted + 1)

\* PadatiousPipeline._register_object, register_func given by kind
RegisterObject(st, kind, name, lang, samples, normalized) ==
    IF samples = <<>> THEN st
    ELSE LET c == st.containers[lang]
             added == IF kind = "intent" THEN ContainerAddIntent(c, name, normalized)
                      ELSE ContainerAddEntity(c, name)
             st1 == [st EXCEPT !.containers[lang] = added,
                               !.must_train[lang] = TRUE,
                               !.finished_initial_train = FALSE]
         IN IF instant_train THEN PipeTrain(st1) ELSE st1

Now == PipeState(containers, must_train, finished_initial_train, 0)

SetPipeState(st) ==
    /\ containers' = st.containers
    /\ must_train' = st.must_train
    /\ finished_initial_train' = st.finished_initial_train

register_intent(skill_id, name, lang, samples) ==
    /\ SumLen(_skill2intent, DOMAIN _skill2intent) < MaxRegistered
    /\ _skill2intent' = [SkillGet(_skill2intent, skill_id) EXCEPT
                            ![skill_id] = Append(@, name)]
    /\ IF lang \in Langs
       THEN /\ registered_intents' = Append(registered_intents, name)
            /\ \E normalized \in DeduplicateList(samples) :
                  LET st == RegisterObject(Now, "intent", name, lang, samples, normalized)
                  IN /\ SetPipeState(st)
                     /\ pLast' = PCall("register_intent", lang, <<>>, NoIntent, st.emitted)
       ELSE /\ pLast' = PCall("register_intent", lang, <<>>, NoIntent, 0)
            /\ UNCHANGED <<registered_intents, containers, must_train,
                           finished_initial_train>>
    /\ UNCHANGED <<registered_entities, instant_train, cache>>

register_entity(name, lang, samples) ==
    /\ Len(registered_entities) < MaxEntityMsgs
    /\ IF lang \in Langs
       THEN /\ registered_entities' =
                  Append(registered_entities,
                         [name |-> name, lang |-> lang, samples |-> samples])
            /\ \E normalized \in DeduplicateList(samples) :
                  LET st == RegisterObject(Now, "entity", name, lang, samples, normalized)
                  IN /\ SetPipeState(st)
                     /\ pLast' = PCall("register_entity", lang, <<>>, NoIntent, st.emitted)
       ELSE /\ pLast' = PCall("register_entity", lang, <<>>, NoIntent, 0)
            /\ UNCHANGED <<registered_entities, containers, must_train,
                           finished_initial_train>>
    /\ UNCHANGED <<registered_intents, _skill2intent, instant_train, cache>>

\* PadatiousPipeline.__detach_intent on ds = [ri, containers, must_train]
DetachIntent(ds, s2i, intent_name) ==
    IF ~InList(intent_name, ds.ri) THEN ds
    ELSE LET listed == \E k \in DOMAIN s2i : InList(intent_name, s2i[k])
         IN [ri |-> ListRemove(ds.ri, intent_name),
             containers |-> [l \in Langs |->
                               IF listed
                               THEN ContainerRemoveIntent(ds.containers[l], intent_name)
                               ELSE ds.containers[l]],
             must_train |-> [l \in Langs |-> listed \/ ds.must_train[l]]]

RECURSIVE DetachAll(_, _, _)
DetachAll(ds, s2i, names) ==
    IF names = <<>> THEN ds
    ELSE DetachAll(DetachIntent(ds, s2i, Head(names)), s2i, Tail(names))

DetachNow == [ri |-> registered_intents, containers |-> containers,
              must_train |-> must_train]

SetDetached(ds) ==
    /\ registered_intents' = ds.ri
    /\ containers' = ds.containers
    /\ must_train' = ds.must_train

handle_detach_intent(intent_name) ==
    /\ SetDetached(DetachIntent(DetachNow, _skill2intent, intent_name))
    /\ pLast' = PCall("detach_intent", None, <<>>, NoIntent, 0)
    /\ UNCHANGED <<registered_entities, _skill2intent, finished_initial_train,
                   instant_train, cache>>

handle_detach_skill(skill_id) ==
    /\ _skill2intent' = SkillGet(_skill2intent, skill_id)
    /\ LET s2i == SkillGet(_skill2intent, skill_id)
       IN SetDetached(DetachAll(DetachNow, s2i, s2i[skill_id]))
    /\ pLast' = PCall("detach_skill", None, <<>>, NoIntent, 0)
    /\ UNCHANGED <<registered_entities, finished_initial_train, instant_train, cache>>

pipeline_train ==
    /\ SetPipeState(PipeTrain(Now))
    /\ pLast' = PCall("train", None, <<>>, NoIntent, PipeTrain(Now).emitted)
    /\ UNCHANGED <<registered_intents, registered_entities, _skill2intent,
                   instant_train, cache>>

\* sum(map(len, x.matches.values()))
RECURSIVE MatchesLen(_, _)
MatchesLen(matches, ks) ==
    IF ks = {} THEN 0
    ELSE LET k == CHOOSE x \in ks : TRUE
         IN Len(matches[k]) + MatchesLen(matches, ks \ {k})

\* first element with the smallest key (Python's min)
MinByMatchesLen(ms) ==
    LET key(m) == MatchesLen(m.matches, DOMAIN m.matches)
    IN ms[CHOOSE i \in 1..Len(ms) :
             /\ \A j \in 1..Len(ms) : key(ms[i]) <= key(ms[j])
             /\ \A j \in 1..(i - 1) : key(ms[i]) < key(ms[j])]

\* _calc_padatious_intent returning the first of the matches of maximal conf
BestIntentFirstOfTies(ms, utt, sess) ==
    LET matches == SelectSeq(ms, LAMBDA m :
                       /\ m.name \notin sess.blacklisted_intents
                       /\ SkillPrefix(m.name) \notin sess.blacklisted_skills)
    IN IF Len(matches) = 0 THEN NoIntent
       ELSE [MaxByConf(matches) EXCEPT !.sent = utt]

\* the body of _calc_padatious_intent; ms is intent_container.calc_intents(utt)
BestIntent(ms, utt, sess) ==
    LET matches == SelectSeq(ms, LAMBDA m :
                       /\ m.name \notin sess.blacklisted_intents
                       /\ SkillPrefix(m.name) \notin sess.blacklisted_skills)
        best_match == MaxByConf(matches)
        best_matches == SelectSeq(matches, LAMBDA m : m.conf = best_match.conf)
    IN IF Len(matches) = 0 THEN NoIntent
       ELSE [MinByMatchesLen(best_matches) EXCEPT !.sent = utt]

CacheKey(utt, lang, sess) == <<utt, lang, sess.session_id>>

CacheHas(ch, key) == \E i \in 1..Len(ch) : ch[i].key = key

CacheIdx(ch, key) == CHOOSE i \in 1..Len(ch) : ch[i].key = key

\* one call of the memoised _calc_padatious_intent(utt, container, sess) on
\* cs = [cache, containers, must_train, out]; the cache lists its entries
\* most recently used first.  The container trains itself on a read when it
\* is dirty.
CalcPadatiousIntent(cs, utt, lang, sess, net) ==
    LET key == CacheKey(utt, lang, sess)
    IN IF CacheHas(cs.cache, key)
       THEN LET e == cs.cache[CacheIdx(cs.cache, key)]
            IN [cs EXCEPT !.cache = <<e>> \o SelectSeq(cs.cache, LAMBDA x : x.key # key),
                          !.out = Append(@, e.val)]
       ELSE LET c == IF cs.must_train[lang] THEN ContainerTrain(cs.containers[lang])
                     ELSE cs.containers[lang]
                val == BestIntent(ContainerCalcIntents(c, utt, net), utt, sess)
            IN [cache |-> Take(<<[key |-> key, val |-> val]>> \o cs.cache, maxsize),
                containers |-> [cs.containers EXCEPT ![lang] = c],
                must_train |-> [cs.must_train EXCEPT ![lang] = FALSE],
                out |-> Append(cs.out, val)]

RECURSIVE CalcEach(_, _, _, _, _)
CalcEach(cs, utts, lang, sess, net) ==
    IF utts = <<>> THEN cs
    ELSE CalcEach(CalcPadatiousIntent(cs, Head(utts), lang, sess, net),
                  Tail(utts), lang, sess, net)

\* PadatiousPipeline._get_closest_lang: a configured language, or None when
\* none is close
GetClosestLang(lang) == IF lang \in Langs THEN lang ELSE None

\* len(u.split()) of the utterances in use, computed once
WordCount == [u \in Utterances |-> Len(Split(u, 1, Len(u)))]

\* the utterances calc_intent keeps
WithinMaxWords(utterances) ==
    SelectSeq(utterances, LAMBDA u : WordCount[u] < max_words)

pipeline_calc_intent(utterances, lang_arg, net) ==
    LET utts == WithinMaxWords(utterances)
        lang == GetClosestLang(IF lang_arg = None THEN PipeLang ELSE lang_arg)
        call(passed, res) ==
            [PCall("calc_intent", lang, passed, res, 0) EXCEPT !.utterances = utterances]
    IN /\ IF utts = <<>> \/ lang = None
          THEN /\ pLast' = call(<<>>, NoIntent)
               /\ UNCHANGED <<containers, must_train, cache>>
          ELSE LET cs == CalcEach([cache |-> cache, containers |-> containers,
                                   must_train |-> must_train, out |-> <<>>],
                                  utts, lang, DefaultSession, net)
                   found == SelectSeq(cs.out, LAMBDA i : i # NoIntent)
               IN /\ cache' = cs.cache
                  /\ containers' = cs.containers
                  /\ must_train' = cs.must_train
                  /\ pLast' = call(utts, IF found = <<>> THEN NoIntent
                                         ELSE MaxByConf(found))
       /\ UNCHANGED <<registered_intents, registered_entities, _skill2intent,
                      finished_initial_train, instant_train>>

\* the intents whose networks a calc_intent for lang_arg may run
PipeNetworks(lang_arg) ==
    LET lang == GetClosestLang(IF lang_arg = None THEN PipeLang ELSE lang_arg)
    IN IF lang = None THEN {} ELSE DictKeys(containers[lang].intents)

PipeInit ==
    DomIdle /\ (\E it \in BOOLEAN : PipeIdle(it)) /\ ThrIdle /\ PadIdle /\ MatchIdle(<<>>)
    /\ RestIdle

PipeOnly == UNCHANGED <<domVars, thrVars, padVars, matchVars>> /\ RestOnly

PipeNext ==
    \/ \E n \in PipeIntents, l \in Langs \cup {FarLang}, s \in PipeSamples :
          register_intent(SkillPrefix(n), n, l, s) /\ PipeOnly
    \/ \E n \in PipeEntities, l \in Langs \cup {FarLang}, s \in PipeSamples \ {<<>>} :
          register_entity(n, l, s) /\ PipeOnly
    \/ \E n \in PipeIntents \cup {None} : handle_detach_intent(n) /\ PipeOnly
    \/ \E k \in Skills : handle_detach_skill(k) /\ PipeOnly
    \/ pipeline_train /\ PipeOnly
    \/ \E us \in UtteranceLists, l \in {None, FarLang} :
          \E net \in [PipeNetworks(l) -> PipeConfs] :
             pipeline_calc_intent(us, l, net) /\ PipeOnly

SpecPipeline == PipeInit /\ [][PipeNext]_vars

(***************************************************************************)
(* Claims about PadatiousPipeline (SpecPipeline)                           *)
(***************************************************************************)
\* C4: once every register or detach has been followed by train() (no
\* container is dirty), the intent calc_intent returns is computed from the
\* container as that train() left it: it names an intent the container
\* holds, never one memoised before the mutation.
C4_NoStaleMemoisedResult ==
    (/\ pLast.op = "calc_intent"
     /\ pLast.res # NoIntent
     /\ ~must_train[pLast.lang])
    => pLast.res.name \in DictKeys(containers[pLast.lang].intents)

\* C10: calc_intent skips an utterance exactly when it has more than
\* max_words words, passes every other one to the container, and returns
\* None when every utterance is skipped.
C10_BypassExactlyAboveMaxWords ==
    (pLast.op = "calc_intent" /\ pLast.lang # None) =>
       /\ \A i \in 1..Len(pLast.utterances) :
             InList(pLast.utterances[i], pLast.passed)
                <=> WordCount[pLast.utterances[i]] <= max_words
       /\ pLast.passed = <<>> => pLast.res = NoIntent

\* occurrences of x in the list l
Count(l, x) == Cardinality({i \in 1..Len(l) : l[i] = x})

\* C28: after handle_detach_intent for the name n, n is not in
\* registered_intents, the list the manifest handler reports, however often
\* n was registered before; n is the name whose occurrences the handler
\* changed.
C28_DetachedIntentNotListed ==
    [][pLast'.op = "detach_intent" =>
          \A n \in PipeIntents :
             Count(registered_intents', n) # Count(registered_intents, n)
                => ~InList(n, registered_intents')]_vars

(***************************************************************************)
(* PadatiousPipeline handlers as threads (opm.py).  The bus runs every     *)
(* handler in a thread of its own; a thread is inside a container call     *)
(* between the call's begin and end steps.  instant_train has its default. *)
(***************************************************************************)
Go(t, at) == thread' = [thread EXCEPT ![t] = at]

\* register_intent up to the call of register_func
t_register_intent(t, lang) ==
    /\ thread[t].pc = "idle"
    /\ Len(t_skill2intent) < MaxThreadRegs
    /\ t_skill2intent' = Append(t_skill2intent, ThreadIntent)
    /\ t_registered' = Append(t_registered, ThreadIntent)
    /\ Go(t, At("add", lang, <<>>, <<>>))
    /\ UNCHANGED <<t_call, lock, t_must_train, t_finished>>

\* register_entity up to the call of register_func
t_register_entity(t, lang) ==
    /\ thread[t].pc = "idle"
    /\ Go(t, At("add", lang, <<>>, <<>>))
    /\ UNCHANGED <<t_call, lock, t_must_train, t_registered, t_skill2intent, t_finished>>

\* _register_object: register_func(name, samples) is entered
t_add_begin(t) ==
    /\ thread[t].pc = "add"
    /\ Go(t, [thread[t] EXCEPT !.pc = "adding"])
    /\ UNCHANGED <<t_call, lock, t_must_train, t_registered, t_skill2intent, t_finished>>

\* register_func returns: the container is dirty; then
\* self.finished_initial_train = False and self.train(message)
t_add_end(t) ==
    /\ thread[t].pc = "adding"
    /\ t_must_train' = [t_must_train EXCEPT ![thread[t].lang] = TRUE]
    /\ t_finished' = FALSE
    /\ Go(t, At("train", None, <<>>, <<>>))
    /\ UNCHANGED <<t_call, lock, t_registered, t_skill2intent>>

\* handle_detach_intent / handle_detach_skill: the names to detach
t_detach(t, names) ==
    /\ thread[t].pc = "idle"
    /\ Go(t, At("detach", None, names, <<>>))
    /\ UNCHANGED <<t_call, lock, t_must_train, t_registered, t_skill2intent, t_finished>>

\* __detach_intent of the next name, up to the loop over the containers
t_detach_next(t) ==
    /\ thread[t].pc = "detach"
    /\ IF thread[t].names = <<>>
       THEN Go(t, Idle) /\ UNCHANGED t_registered
       ELSE LET n == Head(thread[t].names)
                rest == Tail(thread[t].names)
            IN IF ~InList(n, t_registered)
               THEN Go(t, At("detach", None, rest, <<>>)) /\ UNCHANGED t_registered
               ELSE /\ t_registered' = ListRemove(t_registered, n)
                    /\ Go(t, At("remove", None, rest,
                                IF InList(n, t_skill2intent) THEN ThreadLangs ELSE <<>>))
    /\ UNCHANGED <<t_call, lock, t_must_train, t_skill2intent, t_finished>>

\* "for lang in self.containers": remove_intent of the next one is entered
t_remove_begin(t) ==
    /\ thread[t].pc = "remove"
    /\ IF thread[t].langs = <<>>
       THEN Go(t, [thread[t] EXCEPT !.pc = "detach"])
       ELSE Go(t, [thread[t] EXCEPT !.pc = "removing", !.lang = Head(thread[t].langs),
                                    !.langs = Tail(thread[t].langs)])
    /\ UNCHANGED <<t_call, lock, t_must_train, t_registered, t_skill2intent, t_finished>>

\* remove_intent returns: the container is dirty
t_remove_end(t) ==
    /\ thread[t].pc = "removing"
    /\ t_must_train' = [t_must_train EXCEPT ![thread[t].lang] = TRUE]
    /\ Go(t, [thread[t] EXCEPT !.pc = "remove", !.lang = None])
    /\ UNCHANGED <<t_call, lock, t_registered, t_skill2intent, t_finished>>

\* a call of train() by its own
t_train(t) ==
    /\ thread[t].pc = "idle"
    /\ Go(t, At("train", None, <<>>, <<>>))
    /\ UNCHANGED <<t_call, lock, t_must_train, t_registered, t_skill2intent, t_finished>>

\* train going to the emit whether a container is dirty or not
t_train_unchecked(t) ==
    /\ thread[t].pc = "train"
    /\ Go(t, At("emit", None, <<>>, <<>>))
    /\ t_call' = [t_call EXCEPT ![t] = [flagged |-> {l \in DOMAIN t_must_train : t_must_train[l]},
                                        trained |-> {}, emitted |-> 0]]
    /\ UNCHANGED <<lock, t_must_train, t_registered, t_skill2intent, t_finished>>

\* train: "if not any(engine.must_train ...)"
t_train_check(t) ==
    /\ thread[t].pc = "train"
    /\ IF \E l \in DOMAIN t_must_train : t_must_train[l]
       THEN Go(t, At("acquire", None, <<>>, <<>>))
       ELSE Go(t, At("emit", None, <<>>, <<>>))
    /\ t_call' = [t_call EXCEPT ![t] = [flagged |-> {l \in DOMAIN t_must_train : t_must_train[l]},
                                        trained |-> {}, emitted |-> 0]]
    /\ UNCHANGED <<lock, t_must_train, t_registered, t_skill2intent, t_finished>>

\* train: "with self.lock", entered when no other thread holds the lock
t_acquire(t) ==
    /\ thread[t].pc = "acquire"
    /\ lock \in {None, t}
    /\ lock' = t
    /\ Go(t, At("locked", None, <<>>, ThreadLangs))
    /\ UNCHANGED <<t_call, t_must_train, t_registered, t_skill2intent, t_finished>>

\* train: the loop over the containers; containers[lang].train() is entered
\* for a dirty one; after the loop the flag is set and the lock released
t_train_loop(t) ==
    /\ thread[t].pc = "locked"
    /\ IF thread[t].langs = <<>>
       THEN /\ t_finished' = TRUE
            /\ lock' = None
            /\ Go(t, At("emit", None, <<>>, <<>>))
       ELSE /\ LET l == Head(thread[t].langs)
               IN Go(t, At(IF t_must_train[l] THEN "training" ELSE "locked",
                           IF t_must_train[l] THEN l ELSE None,
                           <<>>, Tail(thread[t].langs)))
            /\ UNCHANGED <<lock, t_finished>>
    /\ UNCHANGED <<t_call, t_must_train, t_registered, t_skill2intent>>

\* containers[lang].train() returns: the container is clean
t_training_end(t) ==
    /\ thread[t].pc = "training"
    /\ t_must_train' = [t_must_train EXCEPT ![thread[t].lang] = FALSE]
    /\ t_call' = [u \in Threads |-> [t_call[u] EXCEPT !.trained = @ \cup {thread[t].lang}]]
    /\ Go(t, [thread[t] EXCEPT !.pc = "locked", !.lang = None])
    /\ UNCHANGED <<lock, t_registered, t_skill2intent, t_finished>>

\* train: self.bus.emit(Message('mycroft.skills.trained')) and return
t_emit(t) ==
    /\ thread[t].pc = "emit"
    /\ t_call' = [t_call EXCEPT ![t].emitted = @ + 1]
    /\ Go(t, Idle)
    /\ UNCHANGED <<lock, t_must_train, t_registered, t_skill2intent, t_finished>>

ThrInit == AllIdle

ThrOnly == UNCHANGED <<domVars, pipeVars, padVars, matchVars>> /\ RestOnly

ThrNext ==
    \/ \E t \in Threads, l \in DOMAIN t_must_train : t_register_intent(t, l) /\ ThrOnly
    \/ \E t \in Threads, l \in DOMAIN t_must_train : t_register_entity(t, l) /\ ThrOnly
    \/ \E t \in Threads : t_add_begin(t) /\ ThrOnly
    \/ \E t \in Threads : t_add_end(t) /\ ThrOnly
    \/ \E t \in Threads : t_detach(t, <<ThreadIntent>>) /\ ThrOnly
    \/ \E t \in Threads : t_detach(t, t_skill2intent) /\ ThrOnly
    \/ \E t \in Threads : t_detach_next(t) /\ ThrOnly
    \/ \E t \in Threads : t_remove_begin(t) /\ ThrOnly
    \/ \E t \in Threads : t_remove_end(t) /\ ThrOnly
    \/ \E t \in Threads : t_train(t) /\ ThrOnly
    \/ \E t \in Threads : t_train_check(t) /\ ThrOnly
    \/ \E t \in Threads : t_acquire(t) /\ ThrOnly
    \/ \E t \in Threads : t_train_loop(t) /\ ThrOnly
    \/ \E t \in Threads : t_training_end(t) /\ ThrOnly
    \/ \E t \in Threads : t_emit(t) /\ ThrOnly

SpecThreads == ThrInit /\ [][ThrNext]_vars

\* thread t is inside a call of train() that has not emitted yet
InTrain(t) == thread[t].pc \in {"acquire", "locked", "training", "emit"}

\* C25: a call of train() emits 'mycroft.skills.trained' once, after the
\* train() of every container that was dirty when the call looked has
\* returned, and also when none was dirty; it does not return before.
C25_OneTrainedMessageAfterTraining ==
    /\ [](\A t \in Threads : InTrain(t) => t_call[t].emitted = 0)
    /\ [][\A t \in Threads :
             /\ (InTrain(t) /\ thread'[t].pc = "idle") =>
                   /\ thread[t].pc = "emit"
                   /\ t_call'[t].emitted = 1
                   /\ t_call[t].flagged \subseteq t_call[t].trained
             /\ (thread[t].pc = "train" /\ thread'[t].pc # "train") => InTrain(t)']_vars

\* a call of train() found both containers dirty, trained both and has
\* returned with its one message, and another call that found none dirty
\* has returned with its one message
C25_Witness ==
    \E t, u \in Threads :
       /\ thread[t].pc = "idle" /\ thread[u].pc = "idle"
       /\ t_call[t].flagged = DOMAIN t_must_train
       /\ t_call[t].trained = DOMAIN t_must_train
       /\ t_call[t].emitted = 1
       /\ t_call[u].flagged = {}
       /\ t_call[u].emitted = 1

\* thread t is inside train() of the container of lang l
Training(t, l) == thread[t].pc = "training" /\ thread[t].lang = l

\* thread t is inside an add_* or remove_* call on the container of lang l
Mutating(t, l) == thread[t].pc \in {"adding", "removing"} /\ thread[t].lang = l

\* C5: no handler thread is inside an add_*/remove_* call on a container
\* while another thread is training that container.
C5_MutationExcludesTraining ==
    \A t1 \in Threads, t2 \in Threads, l \in DOMAIN t_must_train :
       t1 # t2 => ~(Training(t1, l) /\ Mutating(t2, l))

(***************************************************************************)
(* Regex IntentContainer (padaos.py) called by threads.  Template lines    *)
(* are strings of characters.  A compiled regex is given by what it was    *)
(* built from: the line, the intent name and the entity patterns in        *)
(* self.entities at that moment (the group counter self.i only numbers the *)
(* group names, and _calc_entities strips the number again).               *)
(***************************************************************************)
PadIntentNames == {"s1:i"}
PadEntityNames == {"s1:e"}
LineA == <<"a">>
LineAB == <<"a", " ", "b">>
LineBlank == <<" ">>
LineOpen == <<"(", "a">>
PadLineLists == {<<LineA, LineAB>>, <<LineOpen, LineBlank, LineAB>>}

\* not line.strip()
IsBlank(line) == \A i \in 1..Len(line) : IsSpace(line[i])

\* re.compile of the pattern of a line raises when its parentheses, which
\* _create_pattern turns into groups, do not balance
RECURSIVE Balanced(_, _, _)
Balanced(line, i, depth) ==
    IF depth < 0 THEN FALSE
    ELSE IF i > Len(line) THEN depth = 0
    ELSE Balanced(line, i + 1,
                  IF line[i] = "(" THEN depth + 1
                  ELSE IF line[i] = ")" THEN depth - 1 ELSE depth)

\* _create_regex: the compiled regex, None (dropped by the caller) on error
Compiles(line) == Balanced(line, 1, 0)

Regex(line, intent_name, ents) ==
    [line |-> line, intent_name |-> intent_name, entities |-> ents]

\* sorted(lines, key=len, reverse=True): stable
RECURSIVE InsertByLen(_, _)
InsertByLen(sorted, x) ==
    IF sorted = <<>> THEN <<x>>
    ELSE IF Len(Head(sorted)) >= Len(x) THEN <<Head(sorted)>> \o InsertByLen(Tail(sorted), x)
    ELSE <<x>> \o sorted

RECURSIVE SortedByLen(_, _)
SortedByLen(lines, acc) ==
    IF lines = <<>> THEN acc
    ELSE SortedByLen(Tail(lines), InsertByLen(acc, Head(lines)))

\* create_regexes giving up on the whole intent when one line fails
create_regexes_all_or_nothing(lines, intent_name, ents) ==
    LET kept == SelectSeq(SortedByLen(lines, <<>>), LAMBDA l : ~IsBlank(l))
    IN IF \E i \in 1..Len(kept) : ~Compiles(kept[i]) THEN <<>>
       ELSE [i \in 1..Len(kept) |-> Regex(kept[i], intent_name, ents)]

create_regexes(lines, intent_name, ents) ==
    LET kept == SelectSeq(SortedByLen(lines, <<>>),
                          LAMBDA l : ~IsBlank(l) /\ Compiles(l))
    IN [i \in 1..Len(kept) |-> Regex(kept[i], intent_name, ents)]

\* _compile, first statement: the alternatives of every entity
CompileEntities(elines) ==
    [n \in DOMAIN elines |-> SelectSeq(elines[n], LAMBDA l : ~IsBlank(l))]

\* _compile, second statement
CompileIntents(ilines, ents) ==
    [n \in DOMAIN ilines |-> create_regexes(ilines[n], n, ents)]

DictSet(d, k, v) == [x \in (DOMAIN d) \cup {k} |-> IF x = k THEN v ELSE d[x]]

DictDel(d, k) == [x \in (DOMAIN d) \ {k} |-> d[x]]

Mutators == {"add_intent", "remove_intent", "add_entity", "remove_entity"}

Enter(t, c) == caller' = [caller EXCEPT ![t] = c]

padData == <<intent_lines, entity_lines, intents, entities, must_compile>>

\* a thread calls add_intent, remove_intent, add_entity, remove_entity or
\* compile: each begins with "with self.compile_lock"
pad_call(t, op, name, lines) ==
    /\ caller[t].pc = "idle"
    /\ Enter(t, InCall("acquire", op, name, lines))
    /\ UNCHANGED <<padData, compile_lock>>

\* a thread calls calc_intents(query)
pad_calc_intents(t) ==
    /\ caller[t].pc = "idle"
    /\ Enter(t, InCall("check", "calc_intents", None, <<>>))
    /\ UNCHANGED <<padData, compile_lock>>

\* calc_intents: "if self.must_compile: self.compile()"
pad_check(t) ==
    /\ caller[t].pc = "check"
    /\ Enter(t, [caller[t] EXCEPT !.pc = IF must_compile THEN "acquire" ELSE "match"])
    /\ UNCHANGED <<padData, compile_lock>>

\* where a call goes once it holds the lock
Locked(t) ==
    [caller[t] EXCEPT !.pc = IF caller[t].op \in Mutators THEN "flag" ELSE "entities"]

\* the lock taken whether or not it is free
pad_acquire_anyway(t) ==
    /\ caller[t].pc = "acquire"
    /\ compile_lock' = t
    /\ Enter(t, Locked(t))
    /\ UNCHANGED padData

\* "with self.compile_lock": entered when the lock is free
pad_acquire(t) ==
    /\ caller[t].pc = "acquire"
    /\ compile_lock = None
    /\ compile_lock' = t
    /\ Enter(t, Locked(t))
    /\ UNCHANGED padData

\* add_* / remove_*: self.must_compile = True
pad_set_flag(t) ==
    /\ caller[t].pc = "flag"
    /\ must_compile' = TRUE
    /\ Enter(t, [caller[t] EXCEPT !.pc = "lines"])
    /\ UNCHANGED <<intent_lines, entity_lines, intents, entities, compile_lock>>

\* add_* / remove_*: the assignment to, or pop from, the lines
pad_set_lines(t) ==
    /\ caller[t].pc = "lines"
    /\ LET c == caller[t]
       IN /\ intent_lines' =
                IF c.op = "add_intent" THEN DictSet(intent_lines, c.name, c.lines)
                ELSE IF c.op = "remove_intent" THEN DictDel(intent_lines, c.name)
                ELSE intent_lines
          /\ entity_lines' =
                IF c.op = "add_entity" THEN DictSet(entity_lines, c.name, c.lines)
                ELSE IF c.op = "remove_entity" THEN DictDel(entity_lines, c.name)
                ELSE entity_lines
    /\ Enter(t, [caller[t] EXCEPT !.pc = "release"])
    /\ UNCHANGED <<intents, entities, must_compile, compile_lock>>

\* _compile: self.entities = {...}
pad_compile_entities(t) ==
    /\ caller[t].pc = "entities"
    /\ entities' = CompileEntities(entity_lines)
    /\ Enter(t, [caller[t] EXCEPT !.pc = "intents"])
    /\ UNCHANGED <<intent_lines, entity_lines, intents, must_compile, compile_lock>>

\* _compile: self.intents = {...}
pad_compile_intents(t) ==
    /\ caller[t].pc = "intents"
    /\ intents' = CompileIntents(intent_lines, entities)
    /\ Enter(t, [caller[t] EXCEPT !.pc = "clear"])
    /\ UNCHANGED <<intent_lines, entity_lines, entities, must_compile, compile_lock>>

\* _compile: self.must_compile = False
pad_clear_flag(t) ==
    /\ caller[t].pc = "clear"
    /\ must_compile' = FALSE
    /\ Enter(t, [caller[t] EXCEPT !.pc = "release"])
    /\ UNCHANGED <<intent_lines, entity_lines, intents, entities, compile_lock>>

\* the end of the with block; calc_intents goes on to match
pad_release(t) ==
    /\ caller[t].pc = "release"
    /\ compile_lock' = None
    /\ Enter(t, IF caller[t].op = "calc_intents"
                THEN [caller[t] EXCEPT !.pc = "match"] ELSE NoCall)
    /\ UNCHANGED padData

\* calc_intents: the loop over self.intents.items(), then return
pad_match(t) ==
    /\ caller[t].pc = "match"
    /\ Enter(t, NoCall)
    /\ UNCHANGED <<padData, compile_lock>>

PadInit == AllIdle

PadOnly == UNCHANGED <<domVars, pipeVars, thrVars, matchVars>> /\ RestOnly

PadNext ==
    \/ \E t \in Callers, n \in PadIntentNames, ls \in PadLineLists :
          pad_call(t, "add_intent", n, ls) /\ PadOnly
    \/ \E t \in Callers, n \in PadIntentNames :
          pad_call(t, "remove_intent", n, <<>>) /\ PadOnly
    \/ \E t \in Callers, n \in PadEntityNames, ls \in PadLineLists :
          pad_call(t, "add_entity", n, ls) /\ PadOnly
    \/ \E t \in Callers, n \in PadEntityNames :
          pad_call(t, "remove_entity", n, <<>>) /\ PadOnly
    \/ \E t \in Callers : pad_call(t, "compile", None, <<>>) /\ PadOnly
    \/ \E t \in Callers : pad_calc_intents(t) /\ PadOnly
    \/ \E t \in Callers : pad_check(t) /\ PadOnly
    \/ \E t \in Callers : pad_acquire(t) /\ PadOnly
    \/ \E t \in Callers : pad_set_flag(t) /\ PadOnly
    \/ \E t \in Callers : pad_set_lines(t) /\ PadOnly
    \/ \E t \in Callers : pad_compile_entities(t) /\ PadOnly
    \/ \E t \in Callers : pad_compile_intents(t) /\ PadOnly
    \/ \E t \in Callers : pad_clear_flag(t) /\ PadOnly
    \/ \E t \in Callers : pad_release(t) /\ PadOnly
    \/ \E t \in Callers : pad_match(t) /\ PadOnly

SpecPadaos == PadInit /\ [][PadNext]_vars

\* C6: whenever the compile lock is free and must_compile is false, the
\* compiled intents and entities are exactly those compiled from the current
\* intent_lines and entity_lines.
C6_CompiledMatchesLines ==
    (compile_lock = None /\ ~must_compile) =>
       /\ entities = CompileEntities(entity_lines)
       /\ intents = CompileIntents(intent_lines, CompileEntities(entity_lines))

\* the lock is free and the flag clear after threads have added an intent
\* and an entity and a compile has run, while another call is under way
C6_Witness ==
    /\ compile_lock = None
    /\ ~must_compile
    /\ \E n \in PadIntentNames : n \in DOMAIN intents /\ intents[n] # <<>>
    /\ \E n \in PadEntityNames : n \in DOMAIN entities
    /\ \E t \in Callers : caller[t].pc = "acquire" /\ caller[t].op \in Mutators

(***************************************************************************)
(* tokenize (util.py), MatchData.detokenize (match_data.py), PosIntent,    *)
(* Intent and IntentManager matching.  Strings and tokens are sequences of *)
(* characters.  What the fitted edge and sentence networks answer is an    *)
(* input of each call.                                                     *)
(***************************************************************************)
UpperCase == <<"A", "B", "C", "D", "E", "F", "G", "H", "I", "J", "K", "L", "M",
               "N", "O", "P", "Q", "R", "S", "T", "U", "V", "W", "X", "Y", "Z">>
LowerCase == <<"a", "b", "c", "d", "e", "f", "g", "h", "i", "j", "k", "l", "m",
               "n", "o", "p", "q", "r", "s", "t", "u", "v", "w", "x", "y", "z">>
Digits == {"0", "1", "2", "3", "4", "5", "6", "7", "8", "9"}

\* two characters beyond ASCII, each written by its code point: LATIN
\* CAPITAL LETTER I WITH DOT ABOVE, a letter, and COMBINING DOT ABOVE, a mark
CapitalIDot == "U+0130"
CombiningDot == "U+0307"

\* str.isalpha() of one character
IsAlpha(c) == (\E i \in 1..26 : c = UpperCase[i] \/ c = LowerCase[i]) \/ c = CapitalIDot

\* str.lower() of one character
LowerChar(c) ==
    IF \E i \in 1..26 : c = UpperCase[i]
    THEN LowerCase[CHOOSE i \in 1..26 : c = UpperCase[i]]
    ELSE c

\* str.lower(): U+0130 lowers to the two characters "i" U+0307
RECURSIVE Lower(_)
Lower(str) ==
    IF str = <<>> THEN <<>>
    ELSE (IF Head(str) = CapitalIDot THEN <<"i", CombiningDot>>
          ELSE <<LowerChar(Head(str))>>) \o Lower(Tail(str))

\* tokenize.update: the type of a character
CharType(c) ==
    IF IsAlpha(c) \/ c \in {"-", "{", "}"} THEN "a"
    ELSE IF c \in Digits \/ c = "#" THEN "n"
    ELSE IF IsSpace(c) THEN "s"
    ELSE "o"

\* Python's "sub in str"
IsSubstring(sub, str) ==
    \E i \in 0..(Len(str) - Len(sub)) : SubSeq(str, i + 1, i + Len(sub)) = sub

\* tokenize.update(c, i) on v = [tokens, start_pos, last_type]; positions
\* count from 1, start_pos 0 stands for -1
Update(v, sentence, c, i) ==
    LET t == CharType(c)
        token == Lower(SubSeq(sentence, v.start_pos, i - 1))
    IN IF t # v.last_type \/ t = "o"
       THEN [tokens |-> IF v.start_pos >= 1 /\ ~IsSubstring(token, <<".", "!", "?">>)
                        THEN Append(v.tokens, token) ELSE v.tokens,
             start_pos |-> IF t = "s" THEN 0 ELSE i,
             last_type |-> t]
       ELSE [v EXCEPT !.last_type = t]

RECURSIVE TokenizeFrom(_, _, _)
TokenizeFrom(v, sentence, i) ==
    IF i > Len(sentence) THEN Update(v, sentence, " ", i).tokens
    ELSE TokenizeFrom(Update(v, sentence, sentence[i], i), sentence, i + 1)

tokenize(sentence) ==
    TokenizeFrom([tokens |-> <<>>, start_pos |-> 0, last_type |-> "o"], sentence, 1)

\* MatchData.handle_apostrophes on h = [new_sentence, apostrophe_present]
RECURSIVE ApostrophesFrom(_, _)
ApostrophesFrom(h, words) ==
    IF words = <<>> THEN h.new_sentence
    ELSE LET word == Head(words)
             next ==
                IF word = <<"'">>
                THEN [new_sentence |-> h.new_sentence \o word, apostrophe_present |-> TRUE]
                ELSE IF h.apostrophe_present
                THEN (IF Len(word) > 1
                      THEN [h EXCEPT !.new_sentence = @ \o <<" ">> \o word]
                      ELSE [new_sentence |-> h.new_sentence \o word,
                            apostrophe_present |-> FALSE])
                ELSE (IF Len(h.new_sentence) > 0
                      THEN [h EXCEPT !.new_sentence = @ \o <<" ">> \o word]
                      ELSE [h EXCEPT !.new_sentence = word])
         IN ApostrophesFrom(next, Tail(words))

handle_apostrophes(old_sentence) ==
    ApostrophesFrom([new_sentence |-> <<>>, apostrophe_present |-> FALSE], old_sentence)

\* token.replace('{', '').replace('}', '')
StripBraces(token) == SelectSeq(token, LAMBDA c : c \notin {"{", "}"})

\* MatchData.detokenize
detokenize(m) ==
    LET keys == {StripBraces(tok) : tok \in DOMAIN m.matches}
    IN [m EXCEPT
          !.sent = handle_apostrophes(m.sent),
          !.matches = [k \in keys |->
                          handle_apostrophes(
                             m.matches[CHOOSE tok \in DOMAIN m.matches :
                                          StripBraces(tok) = k])]]

\* floor of the square root
ISqrt(n) == CHOOSE r \in 0..200 : r * r <= n /\ n < (r + 1) * (r + 1)

\* is_valid without the test that keeps extracted placeholders out of a span
IsValidSpanAny(sent, l_pos, r_pos) == r_pos >= l_pos

\* PosIntent.match, is_valid
IsValidSpan(sent, l_pos, r_pos) ==
    /\ r_pos >= l_pos
    /\ \A q \in l_pos..r_pos : sent[q][1] # "{"

\* EntityManager.find found no entity
NoEntity == [found |-> FALSE]

\* an Entity whose network answers out for what was extracted
Entity(out) == [found |-> TRUE, out |-> out]

\* Entity.match is SimpleIntent.match: max(0, net output)
EntityMatch(entity, extracted) == IF entity.out > 0 THEN entity.out ELSE 0

\* the intent names that hold a ':', and name.split(':')[0] of them
Namespaced == {"s1:a", "s2:b", "s1:c", "s1:e", "s1:i"}

\* EntityManager.find; entity_dict is keyed by <<skill, token>> for the
\* name skill:{token} and by <<"", token>> for the name {token}
EntityManagerFind(entity_dict, intent_name, token) ==
    LET local_name == IF intent_name \in Namespaced
                      THEN <<SkillPrefix(intent_name), token>> ELSE <<"", <<>>>>
        global_name == <<"", token>>
    IN IF local_name \in DOMAIN entity_dict THEN entity_dict[local_name]
       ELSE IF global_name \in DOMAIN entity_dict THEN entity_dict[global_name]
       ELSE NoEntity

\* PosIntent.match of the PosIntent of token: one candidate for every
\* position pair the edges accept, left position first
PosIntentMatch(orig_data, token, edge, entity) ==
    LET sent == orig_data.sent
        n == Len(sent)
        l_conf(q) == edge[<<token, "l", sent, q>>]
        r_conf(q) == edge[<<token, "r", sent, q>>]
        pairs == [k \in 1..(n * n) |-> <<((k - 1) \div n) + 1, ((k - 1) % n) + 1>>]
        kept == SelectSeq(pairs, LAMBDA pr :
                   /\ l_conf(pr[1]) >= 20
                   /\ r_conf(pr[2]) >= 20
                   /\ IsValidSpan(sent, pr[1], pr[2]))
        data(pr) ==
            LET extracted == SubSeq(sent, pr[1], pr[2])
                pos_conf == ((l_conf(pr[1]) - 50 + r_conf(pr[2]) - 50) \div 2) + 50
                ent_conf == IF entity.found THEN EntityMatch(entity, extracted) ELSE 100
                extra_conf == ISqrt(pos_conf * ent_conf) - 50
            IN MatchData(orig_data.name,
                         SubSeq(sent, 1, pr[1] - 1) \o <<token>> \o SubSeq(sent, pr[2] + 1, n),
                         DictSet(orig_data.matches, token, extracted),
                         orig_data.conf + extra_conf)
    IN [k \in 1..Len(kept) |-> data(kept[k])]

RECURSIVE Flatten(_)
Flatten(lists) == IF lists = <<>> THEN <<>> ELSE Head(lists) \o Flatten(Tail(lists))

\* Intent.match, the loop over self.pos_intents
RECURSIVE AddPosMatches(_, _, _, _)
AddPosMatches(possible_matches, pos_intents, edge, entity_manager) ==
    IF pos_intents = <<>> THEN possible_matches
    ELSE LET name == possible_matches[1].name
             entity == EntityManagerFind(entity_manager, name, Head(pos_intents))
         IN AddPosMatches(
               possible_matches \o
                  Flatten([k \in 1..Len(possible_matches) |->
                              PosIntentMatch(possible_matches[k], Head(pos_intents),
                                             edge, entity)]),
               Tail(pos_intents), edge, entity_manager)

\* SimpleIntent.match: max(0, net output)
SimpleIntentMatch(name, sent, simple) ==
    IF simple[<<name, sent>>] > 0 THEN simple[<<name, sent>>] ELSE 0

\* Intent.match, the candidates before those of negative conf are dropped
IntentCandidates(intent, sent, edge, entity_manager) ==
    AddPosMatches(<<MatchData(intent.name, sent, EmptyDict, 0)>>,
                  intent.pos_intents, edge, entity_manager)

\* the scoring of Intent.match adding 1.0 where the code adds 0.5
IntentScoredWhole(intent, sent, edge, simple, entity_manager) ==
    LET all == IntentCandidates(intent, sent, edge, entity_manager)
        possible_matches == SelectSeq(all, LAMBDA i : i.conf >= 0)
    IN [k \in 1..Len(possible_matches) |->
           LET i == possible_matches[k]
               slots == Cardinality(DOMAIN i.matches)
               conf == (IF slots > 0 THEN i.conf \div slots ELSE 0) + 100
           IN [i EXCEPT !.conf =
                  ISqrt(conf * SimpleIntentMatch(intent.name, i.sent, simple))]]

\* Intent.match, the candidates of conf >= 0.0 with the conf the second loop
\* gives them: sqrt((conf / slots + 0.5) * SimpleIntent.match(sent))
IntentScored(intent, sent, edge, simple, entity_manager) ==
    LET all == IntentCandidates(intent, sent, edge, entity_manager)
        possible_matches == SelectSeq(all, LAMBDA i : i.conf >= 0)
    IN [k \in 1..Len(possible_matches) |->
           LET i == possible_matches[k]
               slots == Cardinality(DOMAIN i.matches)
               conf == (IF slots > 0 THEN i.conf \div slots ELSE 0) + 50
           IN [i EXCEPT !.conf =
                  ISqrt(conf * SimpleIntentMatch(intent.name, i.sent, simple))]]

\* Intent.match adding 0.5 to the summed conf without dividing it by the
\* number of slots
IntentMatchUndivided(intent, sent, edge, simple, entity_manager) ==
    LET all == IntentCandidates(intent, sent, edge, entity_manager)
        possible_matches == SelectSeq(all, LAMBDA i : i.conf >= 0)
        scored == [k \in 1..Len(possible_matches) |->
                     LET i == possible_matches[k]
                     IN [i EXCEPT !.conf =
                            ISqrt((i.conf + 50)
                                  * SimpleIntentMatch(intent.name, i.sent, simple))]]
    IN MaxByConf(scored)

\* Intent.match
IntentMatch(intent, sent, edge, simple, entity_manager) ==
    MaxByConf(IntentScored(intent, sent, edge, simple, entity_manager))

\* IntentManager.calc_intents
IntentManagerCalcIntents(objs, query, edge, simple, entity_manager) ==
    [k \in 1..Len(objs) |->
        detokenize(IntentMatch(objs[k], tokenize(query), edge, simple, entity_manager))]

(***************************************************************************)
(* Bounds of the matching model                                            *)
(***************************************************************************)
TokenX == <<"{", "x", "}">>
\* trained intents: one without placeholders, one with the placeholder {x}
MatchObjectLists ==
    {<<>>,
     <<[name |-> "i1", pos_intents |-> <<>>]>>,
     <<[name |-> "i2", pos_intents |-> <<TokenX>>]>>,
     <<[name |-> "i1", pos_intents |-> <<>>], [name |-> "i2", pos_intents |-> <<TokenX>>]>>}
\* the queries "", ".", " ", "a", "A b", "a!", "b 1"
MatchQueries ==
    {<<>>, <<".">>, <<" ">>, <<"a">>, <<"A", " ", "b">>, <<"a", "!">>, <<"b", " ", "1">>}
\* outputs of an edge network and of a sentence network, in hundredths
EdgeOuts == {10, 90}
SimpleOuts == {-20, 50, 80}

\* the sentences one more PosIntent can make of the sentences sents
Spans(sents, token) ==
    UNION {{SubSeq(st, 1, l - 1) \o <<token>> \o SubSeq(st, r + 1, Len(st)) :
               <<l, r>> \in {pr \in (1..Len(st)) \X (1..Len(st)) :
                                IsValidSpan(st, pr[1], pr[2])}} : st \in sents}

\* the edge network runs an Intent.match may make
RECURSIVE EdgeKeys(_, _)
EdgeKeys(sents, pos_intents) ==
    IF pos_intents = <<>> THEN {}
    ELSE UNION {{<<Head(pos_intents), side, st, q>> :
                    side \in {"l", "r"}, q \in 1..Len(st)} : st \in sents}
         \cup EdgeKeys(sents \cup Spans(sents, Head(pos_intents)), Tail(pos_intents))

RECURSIVE CandidateSents(_, _)
CandidateSents(sents, pos_intents) ==
    IF pos_intents = <<>> THEN sents
    ELSE CandidateSents(sents \cup Spans(sents, Head(pos_intents)), Tail(pos_intents))

\* what the networks of the intents objs may answer for a query
MatchOracles(objs, query) ==
    LET sent == tokenize(query)
        idx == 1..Len(objs)
    IN [edge : [UNION {EdgeKeys({sent}, objs[k].pos_intents) : k \in idx} -> EdgeOuts],
        simple : [UNION {{<<objs[k].name, st>> :
                            st \in CandidateSents({sent}, objs[k].pos_intents)} : k \in idx}
                  -> SimpleOuts]]

\* one call of calc_intents on a manager that has not been asked yet
match_calc_intents(query, o) ==
    /\ asked.op = "init"
    /\ asked' = Asked("calc_intents", query, tokenize(query),
                      IntentManagerCalcIntents(objects, query, o.edge, o.simple, EmptyDict))
    /\ UNCHANGED objects

MatchInit ==
    DomIdle /\ PipeIdle(TRUE) /\ ThrIdle /\ PadIdle /\ RestIdle
    /\ (\E objs \in MatchObjectLists : MatchIdle(objs))

MatchOnly == UNCHANGED <<domVars, pipeVars, thrVars, padVars>> /\ RestOnly

MatchNext ==
    \/ \E query \in MatchQueries :
          \E o \in MatchOracles(objects, query) :
             match_calc_intents(query, o) /\ MatchOnly

SpecMatch == MatchInit /\ [][MatchNext]_vars

\* C8: for a query that tokenizes to no tokens, every MatchData that
\* matching returns has name = None and conf = 0.
C8_EmptyInputNullMatch ==
    (asked.op = "calc_intents" /\ asked.sent = <<>>) =>
       \A k \in 1..Len(asked.res) :
          asked.res[k].name = None /\ asked.res[k].conf = 0

(***************************************************************************)
(* One call of _calc_padatious_intent on given matches (SpecSelect)        *)
(***************************************************************************)
\* a function that has not returned, and one that returned val
NotReturned == [returned |-> FALSE]

Returned(val) == [returned |-> TRUE, val |-> val]

\* most matches the container answers with
MaxMatches == 2

SelectNames == {"s1:a", "s2:b", "s1:c"}

\* the slot values a match extracted: none, "a", "ab"
SelectSlots == {EmptyDict, [k \in {"x"} |-> <<"a">>], [k \in {"x"} |-> <<"a", "b">>]}

SelectMatches ==
    {MatchData(n, <<"u">>, sl, c) : n \in SelectNames, sl \in SelectSlots, c \in PipeConfs}

SelectLists == UNION {[1..n -> SelectMatches] : n \in 0..MaxMatches}

\* sessions with and without blacklisted intents and skills
SelectSessions ==
    {[session_id |-> "default", blacklisted_intents |-> bi, blacklisted_skills |-> bs] :
        bi \in SUBSET {"s1:a"}, bs \in SUBSET {"s2"}}

SelectInit ==
    /\ DomIdle /\ PipeIdle(TRUE) /\ ThrIdle /\ PadIdle /\ MatchIdle(<<>>)
    /\ IdIdle /\ TrainIdle /\ EntIdle
    /\ input \in [ms : SelectLists, utt : {<<"q">>}, sess : SelectSessions]
    /\ output = NotReturned

FnOnly == UNCHANGED <<domVars, pipeVars, thrVars, padVars, matchVars, idVars, trainVars,
                    entVars>>

_calc_padatious_intent ==
    /\ ~output.returned
    /\ output' = Returned(BestIntent(input.ms, input.utt, input.sess))
    /\ UNCHANGED input

SelectNext ==
    \/ _calc_padatious_intent /\ FnOnly

SpecSelect == SelectInit /\ [][SelectNext]_vars

\* the matches the session does not blacklist
Allowed(ms, sess) ==
    {k \in 1..Len(ms) : /\ ms[k].name \notin sess.blacklisted_intents
                        /\ SkillPrefix(ms[k].name) \notin sess.blacklisted_skills}

SlotsLen(m) == MatchesLen(m.matches, DOMAIN m.matches)

MaxSentLen == 2

TokenY == <<"{", "y", "}">>

SentWords == <<<<"a">>, <<"b">>, <<"c">>, <<"d">>>>

\* the tokenized sentences a, a b, ... and the empty one
MatchSents == {SubSeq(SentWords, 1, n) : n \in 0..MaxSentLen}

\* trained intents with no, one and two PosIntents
WideIntents ==
    {[name |-> n, pos_intents |-> pis] :
        n \in {"i1", "s1:a"}, pis \in {<<>>, <<TokenX>>, <<TokenX, TokenY>>}}

\* network outputs over the whole of [-1, 1], in hundredths
WideOuts == {-100, 20, 100}

WideSimpleOuts == {-100, 50, 100}

\* entity managers: no entity, or an entity for {x} that is global or local
\* to the skill s1
WideEntityManagers ==
    {EmptyDict}
    \cup {[k \in {<<"", TokenX>>} |-> Entity(c)] : c \in WideOuts}
    \cup {[k \in {<<"s1", TokenX>>} |-> Entity(c)] : c \in {-100, 100}}

\* number of placeholder tokens of a sentence
RECURSIVE Placeholders(_)
Placeholders(sent) ==
    IF sent = <<>> THEN 0
    ELSE (IF Head(sent)[1] = "{" THEN 1 ELSE 0) + Placeholders(Tail(sent))

\* networks: an edge answers by its token and side, the sentence network by
\* the number of placeholders in the sentence
WideEdge(intent, sent, e) ==
    [key \in EdgeKeys({sent}, intent.pos_intents) |-> e[<<key[1], key[2]>>]]

WideSimple(intent, sent, sm) ==
    [key \in {<<intent.name, st>> : st \in CandidateSents({sent}, intent.pos_intents)}
        |-> sm[Placeholders(key[2])]]

IntentMatchInit ==
    /\ DomIdle /\ PipeIdle(TRUE) /\ ThrIdle /\ PadIdle /\ MatchIdle(<<>>)
    /\ IdIdle /\ TrainIdle /\ EntIdle
    /\ input \in [intent : WideIntents, sent : MatchSents,
                  entity_manager : WideEntityManagers]
    /\ output = NotReturned

\* Intent.match(sent, entities); the candidates it built and the conf it gave
\* them are kept next to what it returned
Intent_match(edge, simple) ==
    /\ ~output.returned
    /\ output' = [returned |-> TRUE,
                  val |-> IntentMatch(input.intent, input.sent, edge, simple,
                                      input.entity_manager),
                  cands |-> IntentCandidates(input.intent, input.sent, edge,
                                             input.entity_manager),
                  scored |-> IntentScored(input.intent, input.sent, edge, simple,
                                          input.entity_manager),
                  simple |-> SimpleIntentMatch(input.intent.name, input.sent, simple)]
    /\ UNCHANGED input

IntentMatchNext ==
    \/ \E e \in [{TokenX, TokenY} \X {"l", "r"} -> WideOuts],
          sm \in [0..2 -> WideSimpleOuts] :
          Intent_match(WideEdge(input.intent, input.sent, e),
                       WideSimple(input.intent, input.sent, sm)) /\ FnOnly

SpecIntentMatch == IntentMatchInit /\ [][IntentMatchNext]_vars

\* C12: with every network output in [-1, 1], the conf of the MatchData that
\* Intent.match returns lies in [0, 1].
C12_ReturnedConfInUnitRange ==
    output.returned => (0 <= output.val.conf /\ output.val.conf <= 100)

\* a candidate of negative conf was built and the returned match, with a
\* slot extracted, has conf 1
C12_Witness ==
    /\ output.returned
    /\ \E k \in 1..Len(output.cands) : output.cands[k].conf < 0
    /\ output.val.matches # EmptyDict
    /\ output.val.conf = 100

\* the candidate's sent with every extracted placeholder put back as the
\* span it stands for
RECURSIVE Reconstruct(_, _)
Reconstruct(sent, matches) ==
    IF sent = <<>> THEN <<>>
    ELSE (IF Head(sent) \in DOMAIN matches THEN matches[Head(sent)]
          ELSE <<Head(sent)>>) \o Reconstruct(Tail(sent), matches)

\* C29: for a query with no token starting with '{', in every candidate that
\* Intent.match builds each extracted placeholder stands once in the
\* candidate's sent for a non-empty span, every token of the sent starting
\* with '{' is an extracted placeholder, and putting the spans back in place
\* of the placeholders gives the query's tokens again; the spans therefore
\* lie side by side, pairwise disjoint, in the query.
C29_SpansDisjointAndReconstruct ==
    output.returned =>
       \A k \in 1..Len(output.cands) :
          LET m == output.cands[k]
          IN /\ \A token \in DOMAIN m.matches :
                   /\ Count(m.sent, token) = 1
                   /\ Len(m.matches[token]) >= 1
             /\ \A q \in 1..Len(m.sent) :
                   m.sent[q][1] = "{" => m.sent[q] \in DOMAIN m.matches
             /\ Reconstruct(m.sent, m.matches) = input.sent

\* a candidate holds the spans of two placeholders, next to each other in
\* the query
C29_Witness ==
    /\ output.returned
    /\ \E k \in 1..Len(output.cands) :
          /\ DOMAIN output.cands[k].matches = {TokenX, TokenY}
          /\ output.cands[k].sent = <<TokenX, TokenY>>
          /\ Len(input.sent) = 2

\* default confidence thresholds of the pipeline, in hundredths
conf_high == 95

conf_med == 80

\* C30: a candidate with no extracted slot gets the conf
\* sqrt(0.5 * SimpleIntent.match(sent)), at most sqrt(0.5); the match of an
\* intent with no PosIntents is such a candidate, and so stays below conf_med
\* and conf_high.
C30_SlotlessConfAtMostRootHalf ==
    output.returned =>
       /\ \A k \in 1..Len(output.scored) :
             output.scored[k].matches = EmptyDict =>
                /\ output.scored[k].conf = ISqrt(50 * output.simple)
                /\ output.scored[k].conf <= ISqrt(50 * 100)
       /\ input.intent.pos_intents = <<>> =>
             /\ output.val.conf = ISqrt(50 * output.simple)
             /\ output.val.conf < conf_med
             /\ output.val.conf < conf_high

\* an intent with no PosIntents matched with the network's output at 1.0:
\* the conf is sqrt(0.5)
C30_Witness ==
    /\ output.returned
    /\ input.intent.pos_intents = <<>>
    /\ output.simple = 100
    /\ output.val.conf = ISqrt(50 * 100)

(***************************************************************************)
(* Regex IntentContainer (padaos.py) used by one thread: compile and       *)
(* calc_intent (SpecRegex).  Template lines and queries are words of       *)
(* letters separated by single spaces; a word {name} of a line is a        *)
(* placeholder.  For such a line _create_pattern gives                     *)
(*    ^\W*word\W+(?P<name__n>.*?\w.*?)\W+...\W*$                           *)
(* so that the regex matches word by word, ignoring case, a placeholder    *)
(* taking the fewest words (at least one) that let the rest match, and a   *)
(* placeholder naming an entity of the intent's namespace taking the first *)
(* of the entity's lines that lets the rest match.                         *)
(***************************************************************************)
SlotChars == {LowerCase[i] : i \in 1..26} \cup {"_", ":"}

\* re.findall(r'{([a-z_:]+)}', line) finds the word
IsSlot(w) ==
    /\ Len(w) >= 3
    /\ w[1] = "{" /\ w[Len(w)] = "}"
    /\ \A i \in 2..(Len(w) - 1) : w[i] \in SlotChars

SlotName(w) == SubSeq(w, 2, Len(w) - 1)

\* ent_name[len(namespace):] of the entity names in use
LocalPart(ent_name) == IF ent_name = "s1:e" THEN <<"e">> ELSE <<>>

\* _create_intent_pattern: the entities whose pattern replaces {name} in a
\* line of the intent
SlotEntities(regex, name) ==
    {n \in DOMAIN regex.entities :
        /\ SkillPrefix(n) = SkillPrefix(regex.intent_name)
        /\ LocalPart(n) = name}

\* the text between the first and the last of some words of the query
RECURSIVE Join(_)
Join(ws) ==
    IF ws = <<>> THEN <<>>
    ELSE IF Len(ws) = 1 THEN ws[1]
    ELSE ws[1] \o <<" ">> \o Join(Tail(ws))

NoMatch == [ok |-> FALSE, groups |-> EmptyDict]

\* the first n words of ws are the words alt, ignoring case
StartsWith(ws, alt) ==
    /\ Len(alt) <= Len(ws)
    /\ \A i \in 1..Len(alt) : Lower(ws[i]) = Lower(alt[i])

\* regex.match of the pattern of the words items against the words ws
RECURSIVE MatchItems(_, _, _)
MatchItems(items, ws, regex) ==
    IF items = <<>> THEN [ok |-> ws = <<>>, groups |-> EmptyDict]
    ELSE LET it == Head(items)
             after(n) == MatchItems(Tail(items), SubSeq(ws, n + 1, Len(ws)), regex)
             taken(n) == [ok |-> TRUE,
                          groups |-> DictSet(after(n).groups, SlotName(it),
                                             Join(SubSeq(ws, 1, n)))]
         IN IF ~IsSlot(it)
            THEN IF ws # <<>> /\ Lower(ws[1]) = Lower(it) THEN after(1) ELSE NoMatch
            ELSE IF SlotEntities(regex, SlotName(it)) = {}
            THEN LET fit == {n \in 1..Len(ws) : after(n).ok}
                 IN IF fit = {} THEN NoMatch
                    ELSE taken(CHOOSE n \in fit : \A m \in fit : n <= m)
            ELSE LET e == CHOOSE n \in SlotEntities(regex, SlotName(it)) : TRUE
                     alts == [k \in 1..Len(regex.entities[e]) |->
                                Split(regex.entities[e][k], 1, Len(regex.entities[e][k]))]
                     fit == {k \in 1..Len(alts) :
                               StartsWith(ws, alts[k]) /\ after(Len(alts[k])).ok}
                 IN IF fit = {} THEN NoMatch
                    ELSE taken(Len(alts[CHOOSE k \in fit : \A m \in fit : k <= m]))

\* regex.match(query) and match.groupdict() with the numbers stripped
RegexMatch(regex, query) ==
    MatchItems(Split(regex.line, 1, Len(regex.line)), Split(query, 1, Len(query)), regex)

\* sum(map(len, x.values()))
EntitiesLen(e) == MatchesLen(e, DOMAIN e)

\* first element with the smallest total length of values (Python's min)
MinByEntitiesLen(es) ==
    es[CHOOSE i \in 1..Len(es) :
          /\ \A j \in 1..Len(es) : EntitiesLen(es[i]) <= EntitiesLen(es[j])
          /\ \A j \in 1..(i - 1) : EntitiesLen(es[i]) < EntitiesLen(es[j])]

\* _calc_entities: the groups of every regex that matches, in order
_calc_entities(query, regexes) ==
    LET hit == SelectSeq(regexes, LAMBDA r : RegexMatch(r, query).ok)
    IN [k \in 1..Len(hit) |-> RegexMatch(hit[k], query).groups]

Candidate(name, ents) == [name |-> name, entities |-> ents]

\* calc_intents yielding the entities of the first regex that matches
RECURSIVE PadCalcIntentsFirstRegex(_, _, _)
PadCalcIntentsFirstRegex(order, compiled, query) ==
    IF order = <<>> THEN <<>>
    ELSE LET found == _calc_entities(query, compiled[Head(order)])
         IN (IF found = <<>> THEN <<>>
             ELSE <<Candidate(Head(order), found[1])>>)
            \o PadCalcIntentsFirstRegex(Tail(order), compiled, query)

\* calc_intents after the compile check; order is the order of
\* self.intents.items(), compiled is self.intents
RECURSIVE PadCalcIntents(_, _, _)
PadCalcIntents(order, compiled, query) ==
    IF order = <<>> THEN <<>>
    ELSE LET found == _calc_entities(query, compiled[Head(order)])
         IN (IF found = <<>> THEN <<>>
             ELSE <<Candidate(Head(order), MinByEntitiesLen(found))>>)
            \o PadCalcIntents(Tail(order), compiled, query)

\* calc_intent after the compile check
PadCalcIntent(order, compiled, query) ==
    LET cands == PadCalcIntents(order, compiled, query)
    IN IF cands = <<>> THEN Candidate(None, EmptyDict)
       ELSE cands[CHOOSE i \in 1..Len(cands) :
               /\ \A j \in 1..Len(cands) :
                     EntitiesLen(cands[i].entities) <= EntitiesLen(cands[j].entities)
               /\ \A j \in 1..(i - 1) :
                     EntitiesLen(cands[i].entities) < EntitiesLen(cands[j].entities)]

\* the template lines "a {x}", "a b {x}", "{x} c", "a b c", "d", "a {e}"
LineAx == <<"a", " ", "{", "x", "}">>
LineABx == <<"a", " ", "b", " ", "{", "x", "}">>
LinexC == <<"{", "x", "}", " ", "c">>
LineABC == <<"a", " ", "b", " ", "c">>
LineD == <<"d">>
LineAe == <<"a", " ", "{", "e", "}">>

RegexIntentNames == <<"s1:i", "s2:j">>

RegexLineLists ==
    {<<LineAx, LineABx>>, <<LineOpen, LineBlank, LineAx>>, <<LinexC>>,
     <<LinexC, LineABC>>, <<LineD>>, <<LineAe, LineOpen>>}

\* the entity s1:e is not defined, or is "b", or is "b" or "b c"
RegexEntityLines ==
    {EmptyDict,
     [n \in {"s1:e"} |-> <<<<"b">>>>],
     [n \in {"s1:e"} |-> <<<<"b">>, <<"b", " ", "c">>, LineBlank>>]}

\* the queries "a b c", "A b", "d", ""
RegexQueries == {<<"a", " ", "b", " ", "c">>, <<"A", " ", "b">>, <<"d">>, <<>>}

\* the orders in which up to two intents were added
RegexOrders == {<<>>, <<"s1:i">>, <<"s2:j">>, <<"s1:i", "s2:j">>, <<"s2:j", "s1:i">>}

\* a container after its add_intent and add_entity calls: must_compile is set
\* and nothing is compiled
RegexInit ==
    /\ DomIdle /\ PipeIdle(TRUE) /\ ThrIdle /\ PadIdle /\ MatchIdle(<<>>)
    /\ IdIdle /\ TrainIdle /\ EntIdle
    /\ \E order \in RegexOrders :
          input \in [order : {order},
                     intent_lines : [{order[i] : i \in 1..Len(order)} -> RegexLineLists],
                     entity_lines : RegexEntityLines,
                     query : RegexQueries]
    /\ output = [must_compile |-> TRUE, intents |-> EmptyDict, entities |-> EmptyDict,
                 returned |-> FALSE, val |-> Candidate(None, EmptyDict)]

\* what _compile leaves in the container
Compiled(container) ==
    [container EXCEPT
        !.entities = CompileEntities(input.entity_lines),
        !.intents = CompileIntents(input.intent_lines, CompileEntities(input.entity_lines)),
        !.must_compile = FALSE]

\* compile()
container_compile ==
    /\ output.must_compile
    /\ output' = Compiled(output)
    /\ UNCHANGED input

\* calc_intent(query): pads the query, compiles when must_compile is set
container_calc_intent ==
    /\ ~output.returned
    /\ LET query == <<" ">> \o input.query \o <<" ">>
           c == IF output.must_compile THEN Compiled(output) ELSE output
       IN output' = [c EXCEPT !.returned = TRUE,
                              !.val = PadCalcIntent(input.order, c.intents, query)]
    /\ UNCHANGED input

RegexNext ==
    \/ container_compile /\ FnOnly
    \/ container_calc_intent /\ FnOnly

SpecRegex == RegexInit /\ [][RegexNext]_vars

\* the regexes that match the padded query, as <<intent name, index>>
Matching ==
    {p \in UNION {{<<n, k>> : k \in 1..Len(output.intents[n])} : n \in DOMAIN output.intents} :
        RegexMatch(output.intents[p[1]][p[2]], <<" ">> \o input.query \o <<" ">>).ok}

GroupsOf(p) ==
    RegexMatch(output.intents[p[1]][p[2]], <<" ">> \o input.query \o <<" ">>).groups

\* C13: calc_intent(q) returns the name of an intent with a regex matching
\* ' '+q+' ' together with the entities one of its matching regexes
\* extracted, of total length minimal among all matching regexes of all
\* intents; when no regex matches it returns name None and no entities.
C13_MinimalTotalLength ==
    output.returned =>
       IF Matching = {}
       THEN output.val = Candidate(None, EmptyDict)
       ELSE /\ \E p \in Matching :
                  output.val.name = p[1] /\ output.val.entities = GroupsOf(p)
            /\ \A p \in Matching :
                  EntitiesLen(output.val.entities) <= EntitiesLen(GroupsOf(p))

\* regexes of two intents match with different total lengths, within the
\* first intent too, and the intent added second is returned
C13_Witness ==
    /\ output.returned
    /\ Len(input.order) = 2
    /\ output.val.name = input.order[2]
    /\ \E p \in Matching : p[1] = input.order[1]
    /\ \E p, q \in Matching :
          p[1] = q[1] /\ EntitiesLen(GroupsOf(p)) < EntitiesLen(GroupsOf(q))
    /\ \E p \in Matching : EntitiesLen(output.val.entities) < EntitiesLen(GroupsOf(p))

\* C14: after compile() of a container with a line that does not compile,
\* compile has run to its end, every intent is compiled, a line has a regex
\* exactly when it is not blank and compiles.
C14_FailedLineDroppedAlone ==
    ~output.must_compile =>
       \A n \in DOMAIN input.intent_lines :
          /\ n \in DOMAIN output.intents
          /\ \A i \in 1..Len(input.intent_lines[n]) :
                LET line == input.intent_lines[n][i]
                IN (\E k \in 1..Len(output.intents[n]) : output.intents[n][k].line = line)
                      <=> (~IsBlank(line) /\ Compiles(line))

\* compile() has run on two intents, one with a line that does not compile
\* next to one that does, the other with two lines that compile
C14_Witness ==
    /\ ~output.must_compile
    /\ ~output.returned
    /\ \E n, m \in DOMAIN input.intent_lines :
          /\ n # m
          /\ \E i \in 1..Len(input.intent_lines[n]) : ~Compiles(input.intent_lines[n][i])
          /\ Len(output.intents[n]) = 1
          /\ Len(output.intents[m]) = 2

(***************************************************************************)
(* IdManager (id_manager.py), SpecIds.  self.ids is a dict in insertion    *)
(* order: a sequence of [name, id].  The file <prefix>.ids holds the JSON  *)
(* text json.dump writes: the members of one object in order, each a       *)
(* string and the decimal digits of a number.                              *)
(***************************************************************************)
\* str.isdigit() of the tokens in use
IsDigitToken(token) == token # <<>> /\ \A i \in 1..Len(token) : token[i] \in Digits

\* IdManager.adj_token
adj_token(token) ==
    IF IsDigitToken(token) THEN [i \in 1..Len(token) |-> "#"] ELSE token

\* add_token assigning len(self.ids) whether or not the token is known
IdAddTokenAlways(d, token) ==
    LET t == adj_token(token)
    IN IF DictHas(d, t) THEN [d EXCEPT ![DictIdx(d, t)].id = Len(d)]
       ELSE Append(d, [name |-> t, id |-> Len(d)])

\* IdManager.add_token
IdAddToken(d, token) ==
    LET t == adj_token(token)
    IN IF DictHas(d, t) THEN d ELSE Append(d, [name |-> t, id |-> Len(d)])

\* IdManager.add_sent
RECURSIVE IdAddSent(_, _)
IdAddSent(d, sent) ==
    IF sent = <<>> THEN d ELSE IdAddSent(IdAddToken(d, Head(sent)), Tail(sent))

\* the decimal digits of a number below 100, and the number of such digits
DigitOf(n) == CHOOSE c \in Digits : \E k \in 0..9 : k = n /\ c = <<"0", "1", "2", "3", "4", "5", "6", "7", "8", "9">>[k + 1]

ToDecimal(n) == IF n < 10 THEN <<DigitOf(n)>> ELSE <<DigitOf(n \div 10), DigitOf(n % 10)>>

ValueOf(c) == CHOOSE k \in 0..9 : DigitOf(k) = c

RECURSIVE FromDecimal(_)
FromDecimal(ds) ==
    IF ds = <<>> THEN 0
    ELSE FromDecimal(SubSeq(ds, 1, Len(ds) - 1)) * 10 + ValueOf(ds[Len(ds)])

\* json.dump(self.ids, f): the members in the order of the dict
JsonDump(d) == [i \in 1..Len(d) |-> [key |-> d[i].name, number |-> ToDecimal(d[i].id)]]

\* json.load(f): a dict of the members in the order of the text, a key met
\* again taking the later value
RECURSIVE JsonLoad(_, _)
JsonLoad(text, d) ==
    IF text = <<>> THEN d
    ELSE LET m == Head(text)
             v == FromDecimal(m.number)
         IN JsonLoad(Tail(text),
                     IF DictHas(d, m.key) THEN [d EXCEPT ![DictIdx(d, m.key)].id = v]
                     ELSE Append(d, [name |-> m.key, id |-> v]))

\* IdManager.__init__(id_cls): every value of the class is added
IdManagerInit(values) == IdAddSent(<<>>, values)

\* self.ids[self.adj_token(key)] plus one, as if the vector were 1-based
IdOfOneBased(d, key) == d[DictIdx(d, adj_token(key))].id + 1

\* self.ids[self.adj_token(key)]
IdOf(d, key) == d[DictIdx(d, adj_token(key))].id

\* StrEnum.values() of StrEnum itself and of Ids
StrEnumValues == <<>>

IdsValues == <<<<":", "0">>, <<":", "1">>, <<":", "2">>, <<":", "3">>, <<":", "4">>>>

\* the tokens a, 1, 2, 12 and the sentences made of them
IdTokens == {<<"a">>, <<"1">>, <<"2">>, <<"1", "2">>}

IdSents == {<<>>, <<<<"a">>, <<"1">>>>, <<<<"1", "2">>, <<"2">>, <<"a">>>>}

\* the file <prefix>.ids before any save, and holding a text
NoFile == [exists |-> FALSE]

FileOf(text) == [exists |-> TRUE, text |-> text]

\* what a method was called with, and whether it raised
IdCall(op, key, raised) == [op |-> op, key |-> key, raised |-> raised]

IdsInit ==
    /\ DomIdle /\ PipeIdle(TRUE) /\ ThrIdle /\ PadIdle /\ MatchIdle(<<>>)
    /\ FnIdle /\ TrainIdle /\ EntIdle
    /\ ids \in {IdManagerInit(StrEnumValues), IdManagerInit(IdsValues)}
    /\ file = NoFile
    /\ vec = <<>>
    /\ idLast = IdCall("__init__", <<>>, FALSE)

add_token(token) ==
    /\ ids' = IdAddToken(ids, token)
    /\ idLast' = IdCall("add_token", token, FALSE)
    /\ UNCHANGED <<file, vec>>

add_sent(sent) ==
    /\ ids' = IdAddSent(ids, sent)
    /\ idLast' = IdCall("add_sent", sent, FALSE)
    /\ UNCHANGED <<file, vec>>

save ==
    /\ file' = FileOf(JsonDump(ids))
    /\ idLast' = IdCall("save", <<>>, FALSE)
    /\ UNCHANGED <<ids, vec>>

\* load: open() raises when nothing was saved
load ==
    /\ ids' = IF file.exists THEN JsonLoad(file.text, <<>>) ELSE ids
    /\ idLast' = IdCall("load", <<>>, ~file.exists)
    /\ UNCHANGED <<file, vec>>

\* a caller takes self.ids.vector()
vector ==
    /\ vec' = [i \in 1..Len(ids) |-> 0]
    /\ idLast' = IdCall("vector", <<>>, FALSE)
    /\ UNCHANGED <<ids, file>>

\* assign(vec, key, 1.0): KeyError for an unknown key, IndexError when the
\* vector was taken before the key was added
assign(key) ==
    LET known == DictHas(ids, adj_token(key))
        fits == known /\ IdOf(ids, key) < Len(vec)
    IN /\ vec' = IF fits THEN [vec EXCEPT ![IdOf(ids, key) + 1] = 100] ELSE vec
       /\ idLast' = IdCall("assign", key, ~fits)
       /\ UNCHANGED <<ids, file>>

IdsOnly == UNCHANGED <<domVars, pipeVars, thrVars, padVars, matchVars, fnVars, trainVars,
                     entVars>>

IdsNext ==
    \/ \E token \in IdTokens : add_token(token) /\ IdsOnly
    \/ \E sent \in IdSents : add_sent(sent) /\ IdsOnly
    \/ save /\ IdsOnly
    \/ load /\ IdsOnly
    \/ vector /\ IdsOnly
    \/ \E key \in {<<"a">>, <<"1">>} : assign(key) /\ IdsOnly

SpecIds == IdsInit /\ [][IdsNext]_vars

\* the ids are exactly 0..N-1, one per token
IdsDense ==
    /\ \A i, j \in 1..Len(ids) : ids[i].name = ids[j].name => i = j
    /\ \A i, j \in 1..Len(ids) : ids[i].id = ids[j].id => i = j
    /\ {ids[i].id : i \in 1..Len(ids)} = 0..(Len(ids) - 1)

\* every token of the map keeps its id in the next state
IdsKept == \A i \in 1..Len(ids) : DictHas(ids', ids[i].name) /\ ids'[DictIdx(ids', ids[i].name)].id = ids[i].id

\* the next step is the load of a round trip: it reads the file that a save
\* of this map wrote
RoundTripLoad == idLast'.op = "load" /\ file = FileOf(JsonDump(ids))

\* C15: through add_token, add_sent and save/load round trips the id map is
\* injective onto 0..N-1, an add or a round trip changes the id of no token,
\* and after the load of a round trip an add of a token that was added
\* before leaves the map as it is.
C15_DenseStableIds ==
    /\ []IdsDense
    /\ [][(idLast'.op \in {"add_token", "add_sent", "save"} \/ RoundTripLoad) => IdsKept]_vars
    /\ [][RoundTripLoad => ids' = ids]_vars
    /\ [][(idLast.op = "load" /\ ~idLast.raised /\ idLast'.op = "add_token"
             /\ DictHas(ids, adj_token(idLast'.key))) => ids' = ids]_vars

\* a map holding "#" for a number and two more tokens has come back from a
\* save and load
C15_Witness ==
    /\ idLast.op = "load" /\ ~idLast.raised
    /\ file = FileOf(JsonDump(ids))
    /\ DictHas(ids, <<"#">>) /\ DictHas(ids, <<"#", "#">>) /\ DictHas(ids, <<"a">>)

\* C16: vector() has one position per id, and assign(v, k, x) on a vector
\* of that length and a known token k writes x at position ids[adj(k)] and
\* changes no other position and not the id map.
C16_AssignWritesOnePosition ==
    /\ [](idLast.op = "vector" => Len(vec) = Len(ids))
    /\ [][(/\ idLast'.op = "assign"
           /\ DictHas(ids, adj_token(idLast'.key))
           /\ Len(vec) = Len(ids))
          => /\ ~idLast'.raised
             /\ Len(vec') = Len(vec)
             /\ vec'[ids[DictIdx(ids, adj_token(idLast'.key))].id + 1] = 100
             /\ \A i \in 1..Len(vec) :
                   i # ids[DictIdx(ids, adj_token(idLast'.key))].id + 1 => vec'[i] = vec[i]
             /\ ids' = ids]_vars

\* the value was written for the number 1 at the position of "#", which is
\* neither the first nor the last of the vector
C16_Witness ==
    /\ idLast.op = "assign" /\ idLast.key = <<"1">> /\ ~idLast.raised
    /\ Len(vec) = Len(ids)
    /\ \E i \in 2..(Len(vec) - 1) :
          /\ ids[DictIdx(ids, <<"#">>)].id = i - 1
          /\ vec[i] = 100 /\ vec[1] = 0 /\ vec[Len(vec)] = 0

(***************************************************************************)
(* tokenize called on a string and again on what it returned               *)
(* (SpecTokenize)                                                          *)
(***************************************************************************)
\* longest string tokenized
MaxStrLen == 4

\* characters of every type: letters, the characters taken as letters,
\* digits, space, others
TokenizeChars == {"a", "B", "1", "-", "{", "}", " ", ".", "_", CapitalIDot}

TokenizeStrings == UNION {[1..n -> TokenizeChars] : n \in 0..MaxStrLen}

TokenizeInit ==
    /\ DomIdle /\ PipeIdle(TRUE) /\ ThrIdle /\ PadIdle /\ MatchIdle(<<>>)
    /\ IdIdle /\ TrainIdle /\ EntIdle
    /\ input \in TokenizeStrings
    /\ output = [returned |-> FALSE, val |-> <<>>, again |-> FALSE,
                 each |-> <<>>, joined |-> <<>>]

\* tokenize(s)
tokenize_string ==
    /\ ~output.returned
    /\ output' = [output EXCEPT !.returned = TRUE, !.val = tokenize(input)]
    /\ UNCHANGED input

\* tokenize(t) for every token t returned, and tokenize(' '.join(tokens))
tokenize_tokens ==
    /\ output.returned /\ ~output.again
    /\ output' = [output EXCEPT
                     !.again = TRUE,
                     !.each = [k \in 1..Len(output.val) |-> tokenize(output.val[k])],
                     !.joined = tokenize(Join(output.val))]
    /\ UNCHANGED input

TokenizeNext ==
    \/ tokenize_string /\ FnOnly
    \/ tokenize_tokens /\ FnOnly

SpecTokenize == TokenizeInit /\ [][TokenizeNext]_vars

\* C17: tokenizing a token of tokenize(s) gives that token alone, and
\* tokenizing the tokens joined by spaces gives tokenize(s) again.
C17_TokenizeIdempotent ==
    output.again =>
       /\ \A k \in 1..Len(output.val) : output.each[k] = <<output.val[k]>>
       /\ output.joined = output.val

\* a letter followed by letters, digits and underscores
IsName(str) ==
    /\ str # <<>>
    /\ str[1] \in {"a", "B"}
    /\ \A i \in 1..Len(str) : str[i] \in {"a", "B", "1", "_"}

\* the placeholders {name} of s that have no character of the alpha class
\* next to them, as <<first, last>> positions
Placeheld(s) ==
    {p \in (1..Len(s)) \X (1..Len(s)) :
        /\ p[1] < p[2]
        /\ s[p[1]] = "{" /\ s[p[2]] = "}"
        /\ IsName(SubSeq(s, p[1] + 1, p[2] - 1))
        /\ p[1] > 1 => CharType(s[p[1] - 1]) # "a"
        /\ p[2] < Len(s) => CharType(s[p[2] + 1]) # "a"}

\* C18: a placeholder {name} with no character of the alpha class before or
\* after it is one token of tokenize(s), in lower case.
C18_PlaceholderOneToken ==
    output.returned =>
       \A p \in Placeheld(input) :
          \E k \in 1..Len(output.val) :
             output.val[k] = Lower(SubSeq(input, p[1], p[2]))

(***************************************************************************)
(* TrainData.add_lines / remove_lines and Intent.train of the intent       *)
(* TrainedIntent (SpecTrain).  What the networks are fitted to is left     *)
(* out: a train() call on a part is an entry of train_calls.               *)
(***************************************************************************)
\* most lines given to one add_lines call
MaxAddLines == 2

\* self.name of the Intent trained, and the name of another intent
TrainedIntent == "i1"
TrainNames == {TrainedIntent, "i2"}

\* "x {a}", "{a} {b}", "{a1}", "// {c}", " " and "x": none has an
\* alternation group, which expand_parentheses would expand
TrainLines ==
    {<<"x", " ", "{", "a", "}">>,
     <<"{", "a", "}", " ", "{", "b", "}">>,
     <<"{", "a", "1", "}">>,
     <<"/", "/", " ", "{", "c", "}">>,
     <<" ">>,
     <<"x">>}

TrainLineLists == UNION {[1..n -> TrainLines] : n \in 0..MaxAddLines}

\* TrainData.my_sents as a list
my_sents(td, my_name) == IF my_name \in DOMAIN td THEN td[my_name] ELSE <<>>

\* the orders in which a set is iterated
SetOrders(S) == {t \in [1..Cardinality(S) -> S] : {t[i] : i \in 1..Len(t)} = S}

\* the tokens of a list of sentences
SentTokens(sents) ==
    UNION {{sents[i][k] : k \in 1..Len(sents[i])} : i \in 1..Len(sents)}

SpecTrainInit ==
    /\ DomIdle /\ PipeIdle(TRUE) /\ ThrIdle /\ PadIdle /\ MatchIdle(<<>>)
    /\ FnIdle /\ IdIdle /\ EntIdle
    /\ sent_lists = <<>>
    /\ self_pos_intents = <<>>
    /\ train_calls = <<>>
    /\ train_pc = "made"

\* TrainData.add_lines; a line without alternation group is its own one
\* expansion
add_lines(name, lines) ==
    LET kept == SelectSeq(lines, LAMBDA line :
                            ~(Len(line) >= 2 /\ line[1] = "/" /\ line[2] = "/"))
        sents == [i \in 1..Len(kept) |-> tokenize(kept[i])]
    IN /\ sent_lists' = DictSet(sent_lists, name, SelectSeq(sents, LAMBDA sent : sent # <<>>))
       /\ train_pc' = "made"
       /\ UNCHANGED <<self_pos_intents, train_calls>>

\* TrainData.remove_lines
remove_lines(name) ==
    /\ sent_lists' = DictDel(sent_lists, name)
    /\ train_pc' = "made"
    /\ UNCHANGED <<self_pos_intents, train_calls>>

\* Intent.train(train_data)
Intent_train ==
    LET sents == my_sents(sent_lists, TrainedIntent)
        tokens == {token \in SentTokens(sents) :
                      token[1] = "{"}
    IN \E order \in SetOrders(tokens) :
          /\ self_pos_intents' = order
          /\ train_calls' = <<[part |-> "simple_intent", token |-> <<>>]>>
                            \o [k \in 1..Len(order) |->
                                   [part |-> "pos_intent", token |-> order[k]]]
          /\ train_pc' = "trained"
          /\ UNCHANGED sent_lists

TrainOnly == UNCHANGED <<domVars, pipeVars, thrVars, padVars, matchVars, fnVars, idVars,
                       entVars>>

TrainNext ==
    \/ \E name \in TrainNames, lines \in TrainLineLists : add_lines(name, lines) /\ TrainOnly
    \/ \E name \in TrainNames : remove_lines(name) /\ TrainOnly
    \/ Intent_train /\ TrainOnly

SpecTrain == SpecTrainInit /\ [][TrainNext]_vars

\* the placeholder tokens of the intent's sentences: first character "{"
\* and last character "}"
PlaceholderTokens(td, name) ==
    LET sents == my_sents(td, name)
    IN {token \in SentTokens(sents) :
           token[1] = "{" /\ token[Len(token)] = "}"}

\* C19: after Intent.train(td), pos_intents holds exactly one PosIntent for
\* each distinct placeholder token of td.my_sents(name) and none for any
\* other token, whatever it held before.
C19_OnePosIntentPerPlaceholder ==
    train_pc = "trained" =>
       /\ {self_pos_intents[k] : k \in 1..Len(self_pos_intents)}
             = PlaceholderTokens(sent_lists, TrainedIntent)
       /\ Len(self_pos_intents) = Cardinality(PlaceholderTokens(sent_lists, TrainedIntent))

\* C20: in Intent.train every PosIntent is trained before the SimpleIntent,
\* which is trained last.
C20_SimpleIntentTrainedLast ==
    train_pc = "trained" =>
       /\ train_calls[Len(train_calls)].part = "simple_intent"
       /\ \A k \in 1..(Len(train_calls) - 1) : train_calls[k].part = "pos_intent"

(***************************************************************************)
(* One call of PosIntent.match of the PosIntent of {x}, the two edges      *)
(* answering position by position (SpecPosIntent)                          *)
(***************************************************************************)
\* longest sentence given to PosIntent.match
MaxPosLen == 3

\* a word, a placeholder put in by another PosIntent, and the token "{a",
\* which tokenize gives for "{a b}" and for "{a1}"
PosTokens == {<<"a">>, TokenY, <<"{", "a">>}

PosSents == UNION {[1..n -> PosTokens] : n \in 0..MaxPosLen}

\* what an edge answers: below 0.2 and not
PosOuts == {10, 20}

\* the matches of orig_data: none, or what the PosIntent of {y} extracted
PosMatches == {EmptyDict, DictSet(EmptyDict, TokenY, <<<<"b">>>>)}

PosIntentInit ==
    /\ DomIdle /\ PipeIdle(TRUE) /\ ThrIdle /\ PadIdle /\ MatchIdle(<<>>)
    /\ IdIdle /\ TrainIdle /\ EntIdle
    /\ \E sent \in PosSents, matches \in PosMatches :
          \E l \in [1..Len(sent) -> PosOuts], r \in [1..Len(sent) -> PosOuts] :
             input = [orig_data |-> MatchData("i1", sent, matches, 0), l |-> l, r |-> r]
    /\ output = NotReturned

\* self.edges[0].match and self.edges[1].match at every position
PosEdge(sent, l, r) ==
    [key \in {<<TokenX, side, sent, q>> : side \in {"l", "r"}, q \in 1..Len(sent)}
        |-> IF key[2] = "l" THEN l[key[4]] ELSE r[key[4]]]

\* PosIntent.match(orig_data) with no entity
PosIntent_match ==
    /\ ~output.returned
    /\ output' = Returned(PosIntentMatch(input.orig_data, TokenX,
                                         PosEdge(input.orig_data.sent, input.l, input.r),
                                         NoEntity))
    /\ UNCHANGED input

PosIntentNext ==
    \/ PosIntent_match /\ FnOnly

SpecPosIntent == PosIntentInit /\ [][PosIntentNext]_vars

\* a placeholder token: first character "{" and last character "}"
IsPlaceholderToken(token) == token[1] = "{" /\ token[Len(token)] = "}"

\* the position pairs of C21
PosPairs ==
    LET sent == input.orig_data.sent
    IN {pr \in (1..Len(sent)) \X (1..Len(sent)) :
           /\ pr[1] <= pr[2]
           /\ input.l[pr[1]] >= 20
           /\ input.r[pr[2]] >= 20
           /\ \A q \in pr[1]..pr[2] : ~IsPlaceholderToken(sent[q])}

\* C21: PosIntent.match returns one candidate for each position pair
\* lp <= rp whose edges answer at least 0.2 and whose span holds no
\* placeholder token, and no other; the candidate's sent is the original
\* with the span replaced by the placeholder token, its matches are the
\* original's and the span under the token.
C21_OneCandidatePerValidPair ==
    output.returned =>
       LET sent == input.orig_data.sent
       IN /\ Len(output.val) = Cardinality(PosPairs)
          /\ \A pr \in PosPairs :
                \E k \in 1..Len(output.val) :
                   /\ output.val[k].sent
                         = SubSeq(sent, 1, pr[1] - 1) \o <<TokenX>>
                              \o SubSeq(sent, pr[2] + 1, Len(sent))
                   /\ output.val[k].matches
                         = DictSet(input.orig_data.matches, TokenX,
                                   SubSeq(sent, pr[1], pr[2]))

(***************************************************************************)
(* The examples SimpleIntent.train makes before resolve_conflicts          *)
(* (SpecSimpleTrain).  An example is kept as the arguments of add(), the   *)
(* sentence and the target in hundredths, with the statement that made it. *)
(***************************************************************************)
\* most sentences of the intent trained
MaxMySents == 2

LENIENCE == 60

NullToken == <<":", "n", "u", "l", "l", ":">>

\* tokenize of "a", "a b", "a {x} b", "a b c", "a b c d" and "a :0"
SimpleSents ==
    {tokenize(<<"a">>),
     tokenize(<<"a", " ", "b">>),
     tokenize(<<"a", " ", "{", "x", "}", " ", "b">>),
     tokenize(<<"a", " ", "b", " ", "c">>),
     tokenize(<<"a", " ", "b", " ", "c", " ", "d">>),
     tokenize(<<"a", " ", ":", "0">>)}

SimpleSentLists == UNION {[1..n -> SimpleSents] : n \in 0..MaxMySents}

\* add(vec, out), made by the statement named
Example(sent, out, by, of) == [sent |-> sent, out |-> out, by |-> by, of |-> of]

\* pollute(sent, p) with one ':null:' whatever the length
PolluteOnce(sent, p, of) ==
    Example(SubSeq(sent, 1, p) \o <<NullToken>> \o SubSeq(sent, p + 1, Len(sent)),
            LENIENCE, "pollute", of)

\* pollute(sent, p): int((len(sent) + 2) / 3) times sent.insert(p, ':null:'),
\* p counted from 0
Pollute(sent, p, of) ==
    LET copies == [k \in 1..((Len(sent) + 2) \div 3) |-> NullToken]
    IN Example(SubSeq(sent, 1, p) \o copies \o SubSeq(sent, p + 1, Len(sent)),
               LENIENCE, "pollute", of)

\* calc_weight(w) = pow(len(w), 3.0)
CalcWeight(w) == Len(w) * Len(w) * Len(w)

RECURSIVE SumWeights(_)
SumWeights(sent) ==
    IF sent = <<>> THEN 0 ELSE CalcWeight(Head(sent)) + SumWeights(Tail(sent))

\* weight(sent), the targets in hundredths rounded down
Weight(sent, of) ==
    [k \in 1..Len(sent) |->
        Example(<<sent[k]>>,
                (100 * (IF sent[k][1] = "{" THEN 0 ELSE CalcWeight(sent[k])))
                   \div SumWeights(sent),
                "weight", of)]

\* any(word[0] == ':' and word != ':' for word in sent)
HasSentinel(sent) == \E k \in 1..Len(sent) : sent[k][1] = ":" /\ sent[k] # <<":">>

\* the first loop of train over my_sents, from sentence i on
RECURSIVE PositiveExamples(_, _)
PositiveExamples(mine, i) ==
    IF i > Len(mine) THEN <<>>
    ELSE <<Example(mine[i], 100, "positive", i)>>
         \o Weight(mine[i], i)
         \o (IF ~HasSentinel(mine[i])
             THEN <<Pollute(mine[i], 0, i), Pollute(mine[i], Len(mine[i]), i)>>
             ELSE <<>>)
         \o PositiveExamples(mine, i + 1)

\* the last loop of train over my_sents
RECURSIVE WithoutEntities(_, _)
WithoutEntities(mine, i) ==
    IF i > Len(mine) THEN <<>>
    ELSE LET without_entities ==
                [k \in 1..Len(mine[i]) |->
                    IF mine[i][k][1] = "{" THEN NullToken ELSE mine[i][k]]
         IN (IF without_entities # mine[i]
             THEN <<Example(without_entities, 0, "without_entities", i)>> ELSE <<>>)
            \o WithoutEntities(mine, i + 1)

\* SimpleIntent.train up to the call of resolve_conflicts
TrainExamples(mine, others) ==
    PositiveExamples(mine, 1)
    \o [k \in 1..Len(others) |-> Example(others[k], 0, "other", k)]
    \o <<Example(<<NullToken>>, 0, "null", 0), Example(<<>>, 0, "empty", 0)>>
    \o WithoutEntities(mine, 1)

SimpleTrainInit ==
    /\ DomIdle /\ PipeIdle(TRUE) /\ ThrIdle /\ PadIdle /\ MatchIdle(<<>>)
    /\ IdIdle /\ TrainIdle /\ EntIdle
    /\ input \in [mine : SimpleSentLists, others : {<<>>, <<tokenize(<<"d">>)>>}]
    /\ output = NotReturned

SimpleIntent_train ==
    /\ ~output.returned
    /\ output' = Returned(TrainExamples(input.mine, input.others))
    /\ UNCHANGED input

SimpleTrainNext ==
    \/ SimpleIntent_train /\ FnOnly

SpecSimpleTrain == SimpleTrainInit /\ [][SimpleTrainNext]_vars

\* the examples the pollution step made of sentence i
Polluted(i) ==
    SelectSeq(output.val, LAMBDA e : e.by = "pollute" /\ e.of = i)

\* n copies of ':null:'
Nulls(n) == [k \in 1..n |-> NullToken]

\* C22 as stated: for each positive sentence s with no sentinel-style token
\* the pollution step adds two examples, ceil((|s|+2)/3) copies of ':null:'
\* put before s and the same number put after it, each with target 0.6.
C22_PollutionCeilOfLenPlusTwoThirds ==
    output.returned =>
       \A i \in 1..Len(input.mine) :
          LET sent == input.mine[i]
              n == (Len(sent) + 2 + 2) \div 3
          IN ~HasSentinel(sent) =>
                Polluted(i) = <<Example(Nulls(n) \o sent, LENIENCE, "pollute", i),
                                Example(sent \o Nulls(n), LENIENCE, "pollute", i)>>

\* C22 amended: for each positive sentence s with no sentinel-style token
\* the pollution step adds two examples, floor((|s|+2)/3) copies of ':null:'
\* (that is ceil(|s|/3)) put before s and the same number put after it, each
\* with target 0.6.
C22_PollutionFloorOfLenPlusTwoThirds ==
    output.returned =>
       \A i \in 1..Len(input.mine) :
          LET sent == input.mine[i]
              n == (Len(sent) + 2) \div 3
          IN ~HasSentinel(sent) =>
                Polluted(i) = <<Example(Nulls(n) \o sent, LENIENCE, "pollute", i),
                                Example(sent \o Nulls(n), LENIENCE, "pollute", i)>>

\* a sentence of two tokens was polluted with one ':null:' and a sentence
\* of four tokens with two
C22_Witness ==
    /\ output.returned
    /\ Len(input.mine) = 2
    /\ Len(input.mine[1]) = 2 /\ Len(input.mine[2]) = 4
    /\ Len(Polluted(1)) = 2 /\ Len(Polluted(1)[1].sent) = 3
    /\ Len(Polluted(2)) = 2 /\ Len(Polluted(2)[2].sent) = 6

(***************************************************************************)
(* One call of MatchData.handle_apostrophes on a list of tokens            *)
(* (SpecApostrophes)                                                       *)
(***************************************************************************)
\* longest token list joined
MaxTokens == 4

\* a token of one character, the apostrophe, a token of several characters
ApostropheTokens == {<<"a">>, <<"'">>, <<"t", "o", "y", "s">>}

ApostropheSents == UNION {[1..n -> ApostropheTokens] : n \in 0..MaxTokens}

ApostrophesInit ==
    /\ DomIdle /\ PipeIdle(TRUE) /\ ThrIdle /\ PadIdle /\ MatchIdle(<<>>)
    /\ IdIdle /\ TrainIdle /\ EntIdle
    /\ input \in ApostropheSents
    /\ output = NotReturned

MatchData_handle_apostrophes ==
    /\ ~output.returned
    /\ output' = Returned(handle_apostrophes(input))
    /\ UNCHANGED input

ApostrophesNext ==
    \/ MatchData_handle_apostrophes /\ FnOnly

SpecApostrophes == ApostrophesInit /\ [][ApostrophesNext]_vars

\* the tokens from the k-th on, each after a space but an apostrophe and a
\* token of one character right after an apostrophe
RECURSIVE SpacedFrom(_, _)
SpacedFrom(words, k) ==
    IF k > Len(words) THEN <<>>
    ELSE (IF \/ k = 1
             \/ words[k] = <<"'">>
             \/ (Len(words[k]) = 1 /\ words[k - 1] = <<"'">>)
          THEN words[k]
          ELSE <<" ">> \o words[k])
         \o SpacedFrom(words, k + 1)

\* C23: handle_apostrophes joins the tokens with single spaces, leaving the
\* space out only before an apostrophe and before a token of one character
\* that comes right after an apostrophe.
C23_SpaceBeforeEveryOtherToken ==
    output.returned => output.val = SpacedFrom(input, 1)

(***************************************************************************)
(* One call of resolve_conflicts (SpecResolve).  Vectors and targets hold  *)
(* hundredths.                                                             *)
(***************************************************************************)
\* most examples given to resolve_conflicts
MaxExamples == 3

ResolveInputs == {<<0, 0>>, <<100, 0>>, <<100, 100>>}

\* targets of two positions, so that the maximum is taken position by
\* position
ResolveOutputs == {<<0, 100>>, <<100, 0>>, <<60, 60>>, <<0, 0>>}

Max(S) == CHOOSE x \in S : \A y \in S : y <= x

\* the dict data after the first loop: the distinct inputs in the order of
\* their first occurrence, each with the list of its outputs
RECURSIVE ResolveData(_, _, _)
ResolveData(data, inputs, outputs) ==
    IF inputs = <<>> \/ outputs = <<>> THEN data
    ELSE LET inp == Head(inputs)
             out == Head(outputs)
             at == {i \in 1..Len(data) : data[i].inp = inp}
         IN ResolveData(
               IF at # {}
               THEN [i \in 1..Len(data) |->
                        IF i \in at THEN [data[i] EXCEPT !.outs = Append(@, out)]
                        ELSE data[i]]
               ELSE Append(data, [inp |-> inp, outs |-> <<out>>]),
               Tail(inputs), Tail(outputs))

\* resolve_conflicts keeping the last output given with an input
resolve_conflicts_last(inputs, outputs) ==
    LET data == ResolveData(<<>>, inputs, outputs)
    IN [inputs |-> [i \in 1..Len(data) |-> data[i].inp],
        outputs |-> [i \in 1..Len(data) |-> data[i].outs[Len(data[i].outs)]]]

\* resolve_conflicts(inputs, outputs)
resolve_conflicts(inputs, outputs) ==
    LET data == ResolveData(<<>>, inputs, outputs)
        combined_out(outs) ==
            [i \in 1..Len(outs[1]) |-> Max({outs[c][i] : c \in 1..Len(outs)})]
    IN [inputs |-> [i \in 1..Len(data) |-> data[i].inp],
        outputs |-> [i \in 1..Len(data) |-> combined_out(data[i].outs)]]

ResolveInit ==
    /\ DomIdle /\ PipeIdle(TRUE) /\ ThrIdle /\ PadIdle /\ MatchIdle(<<>>)
    /\ IdIdle /\ TrainIdle /\ EntIdle
    /\ \E n \in 0..MaxExamples :
          input \in [inputs : [1..n -> ResolveInputs], outputs : [1..n -> ResolveOutputs]]
    /\ output = NotReturned

call_resolve_conflicts ==
    /\ ~output.returned
    /\ output' = Returned(resolve_conflicts(input.inputs, input.outputs))
    /\ UNCHANGED input

ResolveNext ==
    \/ call_resolve_conflicts /\ FnOnly

SpecResolve == ResolveInit /\ [][ResolveNext]_vars

\* C24: resolve_conflicts returns pairwise distinct inputs, the set of them
\* the set of the inputs given, and with each the maximum, position by
\* position, of the targets given with that input.
C24_DistinctInputsMaxTargets ==
    output.returned =>
       LET ins == output.val.inputs
           outs == output.val.outputs
           given(inp) == {k \in 1..Len(input.inputs) : input.inputs[k] = inp}
       IN /\ Len(outs) = Len(ins)
          /\ \A i, j \in 1..Len(ins) : ins[i] = ins[j] => i = j
          /\ {ins[i] : i \in 1..Len(ins)}
                = {input.inputs[k] : k \in 1..Len(input.inputs)}
          /\ \A i \in 1..Len(ins) :
                /\ Len(outs[i]) = 2
                /\ \A q \in 1..2 :
                      /\ \E k \in given(ins[i]) : outs[i][q] = input.outputs[k][q]
                      /\ \A k \in given(ins[i]) : outs[i][q] >= input.outputs[k][q]

\* one input came three times, its first target the greatest at one
\* position and its second at the other, and the merged target is neither
\* of the three
C24_Witness ==
    /\ output.returned
    /\ input.inputs = <<<<100, 0>>, <<100, 0>>, <<100, 0>>>>
    /\ input.outputs = <<<<100, 0>>, <<0, 100>>, <<0, 0>>>>
    /\ output.val = [inputs |-> <<<<100, 0>>>>, outputs |-> <<<<100, 100>>>>]

(***************************************************************************)
(* EntityManager with the names as strings of characters (SpecEntities):   *)
(* entities are added under Entity.wrap_name(name), calc_ent_dict fills    *)
(* entity_dict, remove and find are called with any name.                  *)
(***************************************************************************)
\* most Entity objects held
MaxEntities == 2

\* "x", "y" and "s1:x": a global name, another, and a name of the skill s1
EntNames == {<<"x">>, <<"y">>, <<"s", "1", ":", "x">>}

\* intents asking: "s1:a" of the skill s1 and "i1" of no skill
EntIntents == {<<"s", "1", ":", "a">>, <<"i", "1">>}

EntTokens == {TokenX, TokenY}

\* ':' in name
HasColon(name) == \E i \in 1..Len(name) : name[i] = ":"

\* name.split(':')[0]
BeforeColon(name) ==
    SubSeq(name, 1, (CHOOSE i \in 1..Len(name) :
                        name[i] = ":" /\ \A j \in 1..(i - 1) : name[j] # ":") - 1)

\* ':'.join(name.split(':')[1:])
AfterColon(name) == SubSeq(name, Len(BeforeColon(name)) + 2, Len(name))

\* Entity.verify_name does not raise
verify_name(token) == ~(token[1] = "{" \/ token[Len(token)] = "}")

\* Entity.wrap_name
wrap_name(name) ==
    IF HasColon(name)
    THEN BeforeColon(name) \o <<":", "{">> \o AfterColon(name) \o <<"}">>
    ELSE <<"{">> \o name \o <<"}">>

\* the Entity object of a name
EntityObject(name) == [name |-> name]

NoEntityObject == [none |-> TRUE]

\* EntityManager.find
EntityManager_find(dict, intent_name, token) ==
    LET local_name == IF HasColon(intent_name)
                      THEN BeforeColon(intent_name) \o <<":">> \o token ELSE <<>>
        global_name == token
    IN IF local_name \in DOMAIN dict THEN dict[local_name]
       ELSE IF global_name \in DOMAIN dict THEN dict[global_name]
       ELSE NoEntityObject

EmCall(op, name, intent_name, token, res) ==
    [op |-> op, name |-> name, intent_name |-> intent_name, token |-> token, res |-> res]

EntitiesInit ==
    /\ DomIdle /\ PipeIdle(TRUE) /\ ThrIdle /\ PadIdle /\ MatchIdle(<<>>)
    /\ FnIdle /\ IdIdle /\ TrainIdle
    /\ em_objects = <<>>
    /\ em_entity_dict = <<>>
    /\ emLast = EmCall("init", <<>>, <<>>, <<>>, NoEntityObject)

\* IntentContainer.add_entity up to the training: the name is verified and
\* an Entity named wrap_name(name) joins the objects
em_add_entity(name) ==
    /\ verify_name(name)
    /\ Len(em_objects) < MaxEntities
    /\ ~InList(wrap_name(name), em_objects)
    /\ em_objects' = Append(em_objects, wrap_name(name))
    /\ emLast' = EmCall("add_entity", name, <<>>, <<>>, NoEntityObject)
    /\ UNCHANGED em_entity_dict

\* EntityManager.calc_ent_dict
calc_ent_dict ==
    /\ em_entity_dict' = [k \in DOMAIN em_entity_dict \cup {em_objects[i] : i \in 1..Len(em_objects)}
                             |-> EntityObject(k)]
    /\ emLast' = EmCall("calc_ent_dict", <<>>, <<>>, <<>>, NoEntityObject)
    /\ UNCHANGED em_objects

\* EntityManager.remove; TrainingManager.remove drops the objects of that
\* name
em_remove(name) ==
    /\ em_entity_dict' = DictDel(em_entity_dict, <<"{">> \o name \o <<"}">>)
    /\ em_objects' = SelectSeq(em_objects, LAMBDA o : o # <<"{">> \o name \o <<"}">>)
    /\ emLast' = EmCall("remove", name, <<>>, <<>>, NoEntityObject)

em_find(intent_name, token) ==
    /\ emLast' = EmCall("find", <<>>, intent_name, token,
                        EntityManager_find(em_entity_dict, intent_name, token))
    /\ UNCHANGED <<em_objects, em_entity_dict>>

EntOnly == UNCHANGED <<domVars, pipeVars, thrVars, padVars, matchVars, fnVars, idVars,
                       trainVars>>

EntitiesNext ==
    \/ \E name \in EntNames : em_add_entity(name) /\ EntOnly
    \/ calc_ent_dict /\ EntOnly
    \/ \E name \in EntNames : em_remove(name) /\ EntOnly
    \/ \E intent_name \in EntIntents, token \in EntTokens :
          em_find(intent_name, token) /\ EntOnly

SpecEntities == EntitiesInit /\ [][EntitiesNext]_vars

\* C26: after remove(n), n a name verify_name accepts, entity_dict has no
\* key wrap_name(n), the key the entity is registered under, and find
\* returns that entity for no intent.
C26_RemoveDeletesWrappedName ==
    (emLast.op = "remove" /\ verify_name(emLast.name)) =>
       /\ wrap_name(emLast.name) \notin DOMAIN em_entity_dict
       /\ \A intent_name \in EntIntents, token \in EntTokens :
             EntityManager_find(em_entity_dict, intent_name, token)
                # EntityObject(wrap_name(emLast.name))

====
